---- MODULE Spec2Model ----
(***************************************************************************)
(* A model of reverse_ssh's operator core: the user and session registry   *)
(* (internal/server/users/users.go) and the VT100 line editor with its     *)
(* command dispatcher (internal/terminal, terminal.go).                     *)
(*                                                                         *)
(* Spec         : the registry as the SSH server drives it.                *)
(* SpecApi      : the registry under every call its functions accept.      *)
(* SpecLookup   : the lookups GetClient and SearchClients.                 *)
(* SpecTerm     : the editor's read loop and the dispatcher loop Run.      *)
(* SpecDispatch : Run over lines drawn from a bounded set.                 *)
(* SpecEdit     : the editor under a caller that calls ReadLine again.     *)
(* SpecScreen   : the editor beside tasks calling Write, SetSize, Clear.   *)
(* SpecRaw      : raw mode, window-change requests and Read.               *)
(* SpecRing     : Add and NthPreviousEntry on the history ring.            *)
(* SpecLong     : the editor with a line one short of maxLineLength.       *)
(* SpecKeys     : the editor under every key of the decoder.               *)
(* SpecHist     : lines typed and pasted, committed to the history.        *)
(* SpecTab      : Tab completion over the commands help, hello, exit.      *)
(* SpecSize     : SetSize beside a line of up to 50 letters.               *)
(* SpecPaste    : an unknown escape sequence, typed and pasted.            *)
(* SpecSplit    : key encodings that arrive cut into pieces.               *)
(* SpecRawLive  : raw mode and the requests, under fair goroutines.        *)
(* SpecOverflowLive: raw mode, Read, ReadLine, under fair goroutines.      *)
(* SpecPassword : ReadPassword beside Write, SetSize and Clear.            *)
(* SpecOrder    : reads of several keys, ReadLine called again.            *)
(* SpecReject   : the registry, DisconnectUser after a rejection.          *)
(***************************************************************************)
EXTENDS Integers, Sequences, FiniteSets, TLC

VARIABLES
    users,                 \* users.go:27  username -> User
    activeConnections,     \* users.go:29  set of connection-details labels
    allClients,            \* controllee id -> remote address of its connection
    aliases,               \* alias -> set of controllee ids
    uniqueIdToAllAliases,  \* controllee id -> set of aliases
    ret,                   \* the last registry call: arguments and results
    attached               \* the operator connections attached and not yet
                           \* disconnected (what the SSH server holds)

regVars == <<users, activeConnections, allClients, aliases, uniqueIdToAllAliases,
             ret, attached>>

VARIABLES
    line,                  \* Terminal.line: the code points of the current line
    pos,                   \* Terminal.pos: the logical cursor, 0..Len(line)
    cursorX,               \* Terminal.cursorX: the tracked column
    cursorY,               \* Terminal.cursorY: the tracked row, from the prompt
    maxLine,               \* Terminal.maxLine: the greatest row reached
    termWidth,             \* Terminal.termWidth
    termHeight,            \* Terminal.termHeight
    prompt,                \* Terminal.prompt
    echo,                  \* Terminal.echo
    outBuf,                \* Terminal.outBuf: bytes queued for the channel
    history,               \* Terminal.history: the ring of committed lines
    historyIndex,          \* Terminal.historyIndex
    historyPending,        \* Terminal.historyPending
    ac,                    \* the four autocomplete fields of Terminal
    fault                  \* writeLine or the ring failed at run time

edVars == <<line, pos, cursorX, cursorY, maxLine, termWidth, termHeight, prompt,
            echo, outBuf, history, historyIndex, historyPending, ac, fault>>

VARIABLES
    pasteActive,           \* Terminal.pasteActive
    remainder,             \* Terminal.remainder: bytes read and not yet consumed
    rest,                  \* readLine's rest: the bytes its key loop still holds
    lineIsPasted,          \* readLine's lineIsPasted
    lastKey                \* the key readLine decoded last

rdVars == <<pasteActive, remainder, rest, lineIsPasted, lastKey>>

VARIABLES
    raw,                   \* Terminal.raw
    rawOverflow,           \* Terminal.rawOverflow: [made, buf]; made = FALSE
                           \* is the nil channel, buf the messages it holds
    workers,               \* the live goroutines of handleWindowSize, each
                           \* [st, w, h]: st "select", or "setsize" with the
                           \* dimensions of the request it took
    reqOpen,               \* session.ShellRequests is not closed
    pty,                   \* session.Pty: [Columns, Rows]
    rd,                    \* the task calling Read: [st, atDisable]; st is
                           \* "idle", "blocked" (in t.c.Read) or "sending"
    rdret,                 \* what Read returned last: [data, n, err]
    owed                   \* [bytes, how]: the bytes obtained by a Read that
                           \* was blocked at a DisableRaw, and whether that
                           \* call asked for capture ("capture", "plain")

rawVars == <<raw, rawOverflow, workers, reqOpen, pty, rd, rdret, owed>>

VARIABLES
    pc,                    \* where the task calling ReadLine is: "call",
                           \* "overflow", "keys", "complete", "read", "ret",
                           \* "done" (Run returned), "panic"
    lock,                  \* Terminal.lock: "" or the operation holding it
    rl,                    \* what ReadLine returned: [line, err]
    disp,                  \* what Run did with the line: [cmd, flags, printed,
                           \* invoked, herr]
    io,                    \* the last step's call and the bytes it wrote to
                           \* the channel: [op, arg, sent]
    typed                  \* a key of the current line was handled outside
                           \* a paste

\* calls made on the history ring itself
VARIABLES
    adds,                  \* the number of calls of Add made on the ring
    nth                    \* the last call of NthPreviousEntry since the last
                           \* Add: [called, n, value, ok, panic]

ringVars == <<adds, nth>>

\* a call of ReadPassword
VARIABLES
    oldPrompt              \* ReadPassword's oldPrompt: the prompt it puts back

termVars == <<edVars, rdVars, rawVars, pc, lock, rl, disp, io, typed, ringVars,
             oldPrompt>>

vars == <<regVars, termVars>>

(***************************************************************************)
(* Bounds of the registry model.                                           *)
(***************************************************************************)
MaxSessions == 2     \* operator connections attached at once, over all users
MaxClients == 2      \* controllee ids that exist (c1 .. cN)

(***************************************************************************)
(* Program constants.                                                      *)
(***************************************************************************)
UserPermissions == 0
AdminPermissions == 5

(***************************************************************************)
(* Input domains.                                                          *)
(***************************************************************************)
Usernames == {"alice", "bob"}
Addrs == {"10.0.0.1:22", "10.0.0.2:22"}
\* values of Permissions.Extensions["privilege"], as sequences of characters
PrivExts == {<<"5">>, <<"x">>}

\* an *ssh.ServerConn of an operator; NilConn is the nil pointer
Conn == [nil : {FALSE}, user : Usernames, addr : Addrs, priv : PrivExts]
NilConn == [nil |-> TRUE, user |-> "", addr |-> "", priv |-> <<>>]

\* every label an operator connection can have
activeLabels == { c.user \o "@" \o c.addr : c \in Conn }

\* the empty Go map
EmptyMap == [k \in {} |-> k]
MapPut(f, k, v) == [x \in DOMAIN f \cup {k} |-> IF x = k THEN v ELSE f[x]]
MapDel(f, k) == [x \in DOMAIN f \ {k} |-> f[x]]

DigitChars == <<"0", "1", "2", "3", "4", "5", "6", "7", "8", "9">>
IsDigit(ch) == \E d \in 1..10 : DigitChars[d] = ch
DigitVal(ch) == (CHOOSE d \in 1..10 : DigitChars[d] = ch) - 1

\* controllee ids, aliases and remote addresses, as sequences of characters
ClientIds == { <<"c", DigitChars[d + 1]>> : d \in 1..MaxClients }
AliasNames == { <<"w", "e", "b">> }
\* each controllee connects from a host of its own: c1 from h1, c2 from h2
ClientAddrOf(id) == <<"h", id[2]>>
\* identifiers handed to GetClient and filters handed to SearchClients
Identifiers == ClientIds \cup AliasNames \cup { <<"z">> }
Filters == { <<>>, <<"c", "1">>, <<"w">>, <<"h", "?">>, <<"?", "2">>, <<"[">> }

(***************************************************************************)
(* strconv.Atoi on the privilege extension: an optional sign, then one or  *)
(* more decimal digits.                                                    *)
(***************************************************************************)
RECURSIVE digitsValue(_)
digitsValue(s) ==
    IF s = <<>> THEN 0
    ELSE 10 * digitsValue(SubSeq(s, 1, Len(s) - 1)) + DigitVal(s[Len(s)])

Atoi(s) ==
    LET signed == s # <<>> /\ s[1] \in {"+", "-"}
        body == IF signed THEN Tail(s) ELSE s
        ok == body # <<>> /\ \A i \in 1..Len(body) : IsDigit(body[i])
    IN  [ok |-> ok,
         val |-> IF ~ok THEN 0
                 ELSE IF signed /\ s[1] = "-" THEN 0 - digitsValue(body)
                 ELSE digitsValue(body)]

(***************************************************************************)
(* path/filepath.Match for patterns made of literals, '*', '?' and '['.    *)
(* A '[' that is never closed makes the pattern malformed (ErrBadPattern); *)
(* '*' and '?' do not match the separator '/'.                             *)
(***************************************************************************)
BadPattern(p) ==
    \E i \in 1..Len(p) : p[i] = "[" /\ ~\E j \in (i + 2)..Len(p) : p[j] = "]"

RECURSIVE globMatch(_, _)
globMatch(p, s) ==
    IF p = <<>> THEN s = <<>>
    ELSE IF p[1] = "*"
         THEN globMatch(Tail(p), s)
              \/ (s # <<>> /\ s[1] # "/" /\ globMatch(p, Tail(s)))
    ELSE IF p[1] = "?"
         THEN s # <<>> /\ s[1] # "/" /\ globMatch(Tail(p), Tail(s))
    ELSE s # <<>> /\ s[1] = p[1] /\ globMatch(Tail(p), Tail(s))

\* match, _ := filepath.Match(pattern, name): false when the pattern is bad
Match(p, s) == ~BadPattern(p) /\ globMatch(p, s)

(***************************************************************************)
(* users.go                                                                *)
(***************************************************************************)
makeConnectionDetailsString(ServerConnection) ==
    ServerConnection.user \o "@" \o ServerConnection.addr

NewUser(username) ==
    [username |-> username, userConnections |-> EmptyMap,
     clients |-> {}, privilege |-> <<>>]

\* User.Privilege: a nil privilege pointer reads as 0
Privilege(u) == IF u.privilege = <<>> THEN 0 ELSE u.privilege[1]

\* mutant: no duplicate check, the new session replaces the stored one
_createOrGetUser_overwrite(us, act, username, serverConnection) ==
    LET users1 == IF username \in DOMAIN us THEN us
                  ELSE MapPut(us, username, NewUser(username))
        u == users1[username]
    IN  IF ~serverConnection.nil
        THEN LET details == makeConnectionDetailsString(serverConnection)
                 newConnection == [serverConnection |-> serverConnection,
                                   ConnectionDetails |-> details]
                 priv == Atoi(serverConnection.priv)
                 u1 == IF priv.ok THEN [u EXCEPT !.privilege = <<priv.val>>] ELSE u
             IN  [users |-> MapPut(users1, username,
                               [u1 EXCEPT !.userConnections =
                                    MapPut(@, details, newConnection)]),
                  activeConnections |-> act \cup {details},
                  us |-> <<username>>, connectionDetails |-> details,
                  err |-> ""]
        ELSE [users |-> users1, activeConnections |-> act,
              us |-> <<username>>, connectionDetails |-> "", err |-> ""]

_createOrGetUser(us, act, username, serverConnection) ==
    LET users1 == IF username \in DOMAIN us THEN us
                  ELSE MapPut(us, username, NewUser(username))
        u == users1[username]
    IN  IF ~serverConnection.nil
        THEN LET details == makeConnectionDetailsString(serverConnection)
                 newConnection == [serverConnection |-> serverConnection,
                                   ConnectionDetails |-> details]
                 priv == Atoi(serverConnection.priv)
                 u1 == IF priv.ok THEN [u EXCEPT !.privilege = <<priv.val>>] ELSE u
             IN  IF details \in DOMAIN u1.userConnections
                 THEN [users |-> MapPut(users1, username, u1),
                       activeConnections |-> act,
                       us |-> <<>>, connectionDetails |-> "",
                       err |-> "connection already exists"]
                 ELSE [users |-> MapPut(users1, username,
                                   [u1 EXCEPT !.userConnections =
                                        MapPut(@, details, newConnection)]),
                       activeConnections |-> act \cup {details},
                       us |-> <<username>>, connectionDetails |-> details,
                       err |-> ""]
        ELSE [users |-> users1, activeConnections |-> act,
              us |-> <<username>>, connectionDetails |-> "", err |-> ""]

DisconnectUser(us, act, ServerConnection) ==
    IF ServerConnection.nil
    THEN [users |-> us, activeConnections |-> act, closed |-> FALSE]
    ELSE LET details == makeConnectionDetailsString(ServerConnection)
         IN  IF ServerConnection.user \notin DOMAIN us
             THEN [users |-> us, activeConnections |-> act, closed |-> TRUE]
             ELSE LET user == [us[ServerConnection.user] EXCEPT
                                  !.userConnections = MapDel(@, details)]
                  IN  [users |-> IF user.clients = {}
                                 THEN MapDel(us, user.username)
                                 ELSE MapPut(us, ServerConnection.user, user),
                       activeConnections |-> act \ {details},
                       closed |-> TRUE]

\* _matches: the id, any alias of the id, or the remote address matches
_matches(filter, clientId, remoteAddr, idAliases) ==
    \/ Match(filter, clientId)
    \/ \E alias \in idAliases : Match(filter, alias)
    \/ Match(filter, remoteAddr)

\* User.SearchClients: u is the User, all the global controllee map
SearchClients(u, all, allAliases, filter) ==
    LET filter1 == filter \o <<"*">>
        searchClients == IF Privilege(u) = AdminPermissions
                         THEN DOMAIN all ELSE u.clients
    IN  IF BadPattern(filter1)
        THEN [out |-> {}, err |-> "filter is not well formed"]
        ELSE [out |-> { id \in searchClients :
                          _matches(filter1, id, all[id],
                                   IF id \in DOMAIN allAliases
                                   THEN allAliases[id] ELSE {}) },
              err |-> ""]

\* GetClient answering an ambiguous alias with one of its candidates
GetClient_anyMatch(u, all, al, identifier) ==
    IF identifier \in DOMAIN all
    THEN [conn |-> <<identifier>>, err |-> "", matches |-> {}, aliases |-> al]
    ELSE IF identifier \notin DOMAIN al
    THEN [conn |-> <<>>, err |-> "not found", matches |-> {}, aliases |-> al]
    ELSE LET m == IF Privilege(u) # AdminPermissions
                  THEN { id \in al[identifier] : id \in u.clients }
                  ELSE al[identifier]
         IN  IF m = {}
             THEN [conn |-> <<>>, err |-> "connections match alias",
                   matches |-> {}, aliases |-> al]
             ELSE [conn |-> <<CHOOSE k \in m : TRUE>>, err |-> "",
                   matches |-> {}, aliases |-> al]

\* User.GetClient: al is the global alias map, which the pruning loop writes
GetClient(u, all, al, identifier) ==
    IF identifier \in DOMAIN all
    THEN [conn |-> <<identifier>>, err |-> "", matches |-> {}, aliases |-> al]
    ELSE LET searchClients == IF Privilege(u) = AdminPermissions
                              THEN DOMAIN all ELSE u.clients
         IN  IF identifier \notin DOMAIN al
             THEN [conn |-> <<>>, err |-> "not found", matches |-> {},
                   aliases |-> al]
             ELSE LET matchingUniqueIDs ==
                          IF Privilege(u) # AdminPermissions
                          THEN { id \in al[identifier] : id \in u.clients }
                          ELSE al[identifier]
                      al1 == [al EXCEPT ![identifier] = matchingUniqueIDs]
                  IN  IF Cardinality(matchingUniqueIDs) = 1
                      THEN LET k == CHOOSE k \in matchingUniqueIDs : TRUE
                           IN  [conn |-> IF k \in searchClients
                                         THEN <<k>> ELSE <<>>,
                                err |-> "", matches |-> {}, aliases |-> al1]
                      ELSE IF matchingUniqueIDs \subseteq searchClients
                      THEN [conn |-> <<>>, err |-> "connections match alias",
                            matches |-> matchingUniqueIDs, aliases |-> al1]
                      ELSE [conn |-> <<>>, err |-> "panic", matches |-> {},
                            aliases |-> al1]

(***************************************************************************)
(* Registration of controllees (the code is not among the source files):   *)
(* a controllee gets an id, a remote address, owners and aliases; each     *)
(* owner's record is created if absent.  Removal takes the id out of every *)
(* map and drops an owner left with neither controllees nor sessions.      *)
(***************************************************************************)
RECURSIVE addOwners(_, _, _)
addOwners(us, owners, id) ==
    IF owners = {} THEN us
    ELSE LET o == CHOOSE o \in owners : TRUE
             us1 == _createOrGetUser(us, {}, o, NilConn).users
         IN  addOwners([us1 EXCEPT ![o].clients = @ \cup {id}], owners \ {o}, id)

AssociateClient(id, addr, owners, als) ==
    /\ id \notin DOMAIN allClients
    /\ allClients' = MapPut(allClients, id, addr)
    /\ users' = addOwners(users, owners, id)
    /\ aliases' = [a \in DOMAIN aliases \cup als |->
                      IF a \in als
                      THEN (IF a \in DOMAIN aliases THEN aliases[a] ELSE {}) \cup {id}
                      ELSE aliases[a]]
    /\ uniqueIdToAllAliases' = MapPut(uniqueIdToAllAliases, id, als)
    /\ UNCHANGED <<activeConnections, attached>>

DisassociateClient(id) ==
    /\ id \in DOMAIN allClients
    /\ allClients' = MapDel(allClients, id)
    /\ LET keep == { n \in DOMAIN users :
                       \/ users[n].clients \ {id} # {}
                       \/ DOMAIN users[n].userConnections # {} }
       IN  users' = [n \in keep |-> [users[n] EXCEPT !.clients = @ \ {id}]]
    /\ LET left == { a \in DOMAIN aliases : aliases[a] \ {id} # {} }
       IN  aliases' = [a \in left |-> aliases[a] \ {id}]
    /\ uniqueIdToAllAliases' = MapDel(uniqueIdToAllAliases, id)
    /\ UNCHANGED <<activeConnections, attached>>

(***************************************************************************)
(* The registry's operations as actions.  ret records the call just made.  *)
(***************************************************************************)
RetNone ==
    [op |-> "none", username |-> "", conn |-> NilConn, arg |-> <<>>,
     us |-> <<>>, details |-> "", err |-> "", out |-> {}, closed |-> FALSE]

CreateOrGetUser(username, serverConnection) ==
    /\ UNCHANGED termVars
    /\ \/ serverConnection.nil
       \/ serverConnection \in attached
       \/ Cardinality(attached) < MaxSessions
    /\ LET r == _createOrGetUser(users, activeConnections, username,
                                  serverConnection)
       IN  /\ users' = r.users
           /\ activeConnections' = r.activeConnections
           /\ ret' = [RetNone EXCEPT !.op = "CreateOrGetUser",
                          !.username = username, !.conn = serverConnection,
                          !.us = r.us, !.details = r.connectionDetails,
                          !.err = r.err]
           /\ attached' = IF ~serverConnection.nil /\ r.err = ""
                          THEN attached \cup {serverConnection} ELSE attached
    /\ UNCHANGED <<allClients, aliases, uniqueIdToAllAliases>>

DisconnectUserCall(ServerConnection) ==
    /\ UNCHANGED termVars
    /\ LET r == DisconnectUser(users, activeConnections, ServerConnection)
       IN  /\ users' = r.users
           /\ activeConnections' = r.activeConnections
           /\ ret' = [RetNone EXCEPT !.op = "DisconnectUser",
                          !.conn = ServerConnection, !.closed = r.closed]
    /\ attached' = attached \ {ServerConnection}
    /\ UNCHANGED <<allClients, aliases, uniqueIdToAllAliases>>

GetClientCall(username, identifier) ==
    /\ UNCHANGED termVars
    /\ username \in DOMAIN users
    /\ LET r == GetClient(users[username], allClients, aliases, identifier)
       IN  /\ aliases' = r.aliases
           /\ ret' = [RetNone EXCEPT !.op = "GetClient",
                          !.username = username, !.arg = identifier,
                          !.out = { r.conn[i] : i \in 1..Len(r.conn) } \cup r.matches,
                          !.us = r.conn, !.err = r.err]
    /\ UNCHANGED <<users, activeConnections, allClients, uniqueIdToAllAliases,
                   attached>>

SearchClientsCall(username, filter) ==
    /\ UNCHANGED termVars
    /\ username \in DOMAIN users
    /\ LET r == SearchClients(users[username], allClients,
                               uniqueIdToAllAliases, filter)
       IN  ret' = [RetNone EXCEPT !.op = "SearchClients",
                      !.username = username, !.arg = filter,
                      !.out = r.out, !.err = r.err]
    /\ UNCHANGED <<users, activeConnections, allClients, aliases,
                   uniqueIdToAllAliases, attached>>

AssociateClientCall(id, addr, owners, als) ==
    /\ UNCHANGED termVars
    /\ AssociateClient(id, addr, owners, als)
    /\ ret' = [RetNone EXCEPT !.op = "AssociateClient", !.arg = id]

DisassociateClientCall(id) ==
    /\ UNCHANGED termVars
    /\ DisassociateClient(id)
    /\ ret' = [RetNone EXCEPT !.op = "DisassociateClient", !.arg = id]

(***************************************************************************)
(* The line editor and the command dispatcher (Terminal).  Bytes and code  *)
(* points are numbers; a line is a sequence of code points.  The editor    *)
(* is modelled by the current line and the logical cursor; painting, the   *)
(* history and completion are outside this part of the model, so the keys  *)
(* that recall history and the tab key are not among the inputs.           *)
(***************************************************************************)
MaxLineLen == 3      \* code points in the current line
MaxInBuf == 7        \* bytes held in the input buffer
MaxHistory == 1      \* lines committed to the history
MaxFlags == 2        \* flag tokens on a dispatched line

keyCtrlC == 3
keyCtrlD == 4
keyCtrlU == 21
keyEnter == 13
keyEscape == 27
keyBackspace == 127
keyUnknown == 55302
keyUp == 55303
keyDown == 55304
keyLeft == 55305
keyRight == 55306
keyAltLeft == 55307
keyAltRight == 55308
keyHome == 55309
keyDel == 55310
keyEnd == 55311
keyDeleteWord == 55312
keyDeleteLine == 55313
keyClearScreen == 55314
keyPasteStart == 55315
keyPasteEnd == 55316
RuneError == 65533
keyPanic == 0 - 1    \* no key: the decoder failed with a run-time panic
maxLineLength == 4096

pasteStart == <<keyEscape, 91, 50, 48, 48, 126>>
pasteEnd == <<keyEscape, 91, 50, 48, 49, 126>>

ErrCtrlD == "ctrl + D"
ErrPasteIndicator == "terminal: ErrPasteIndicator not correctly handled"
EOF == "EOF"
ErrRead == "read error"    \* an error of the channel's Read other than io.EOF

\* b[n+1:] of a byte slice
From(b, n) == IF n >= Len(b) THEN <<>> ELSE SubSeq(b, n + 1, Len(b))

\* utf8.FullRune and utf8.DecodeRune: [full, r, l].  The bytes of this model
\* are below 224: one- and two-byte encodings.
DecodeRune(b) ==
    IF b[1] < 128 THEN [full |-> TRUE, r |-> b[1], l |-> 1]
    ELSE IF b[1] < 194
    THEN [full |-> TRUE, r |-> RuneError, l |-> 1]
    ELSE IF Len(b) < 2 THEN [full |-> FALSE, r |-> RuneError, l |-> 0]
    ELSE IF b[2] >= 128 /\ b[2] < 192
    THEN [full |-> TRUE, r |-> (b[1] - 192) * 64 + (b[2] - 128), l |-> 2]
    ELSE [full |-> TRUE, r |-> RuneError, l |-> 1]

isAlpha(c) == (c >= 97 /\ c <= 122) \/ (c >= 65 /\ c <= 90)

\* the first index of b holding a letter or '~', or 0
RECURSIVE endOfSequence(_, _)
endOfSequence(b, i) ==
    IF i > Len(b) THEN 0
    ELSE IF isAlpha(b[i]) \/ b[i] = 126 THEN i
    ELSE endOfSequence(b, i + 1)

ctrlKeys ==
    (1 :> keyHome) @@ (2 :> keyLeft) @@ (5 :> keyEnd) @@ (6 :> keyRight) @@
    (8 :> keyBackspace) @@ (11 :> keyDeleteLine) @@ (12 :> keyClearScreen) @@
    (23 :> keyDeleteWord) @@ (14 :> keyDown) @@ (16 :> keyUp)

csiKeys ==
    (65 :> keyUp) @@ (66 :> keyDown) @@ (67 :> keyRight) @@ (68 :> keyLeft) @@
    (72 :> keyHome) @@ (70 :> keyEnd)

\* bytesToKey: [key, rest]; key = RuneError when no key can be read yet
bytesToKey(b, paste) ==
    IF Len(b) = 0 THEN [key |-> RuneError, rest |-> <<>>]
    ELSE IF ~paste /\ b[1] \in DOMAIN ctrlKeys
    THEN [key |-> ctrlKeys[b[1]], rest |-> From(b, 1)]
    ELSE IF b[1] # keyEscape
    THEN LET d == DecodeRune(b)
         IN  IF ~d.full THEN [key |-> RuneError, rest |-> b]
             ELSE [key |-> d.r, rest |-> From(b, d.l)]
    ELSE IF ~paste /\ Len(b) >= 3 /\ b[2] = 91 /\ b[3] \in DOMAIN csiKeys
    THEN [key |-> csiKeys[b[3]], rest |-> From(b, 3)]
    ELSE IF ~paste /\ Len(b) >= 3 /\ b[2] = 91 /\ b[3] = 51
    THEN IF Len(b) >= 4 THEN [key |-> keyDel, rest |-> From(b, 4)]
         ELSE [key |-> keyPanic, rest |-> b]      \* b[4:] of three bytes
    ELSE IF /\ ~paste /\ Len(b) >= 6 /\ b[2] = 91 /\ b[3] = 49
            /\ b[4] = 59 /\ b[5] = 51 /\ b[6] \in {67, 68}
    THEN [key |-> IF b[6] = 67 THEN keyAltRight ELSE keyAltLeft,
          rest |-> From(b, 6)]
    ELSE IF ~paste /\ Len(b) >= 6 /\ SubSeq(b, 1, 6) = pasteStart
    THEN [key |-> keyPasteStart, rest |-> From(b, 6)]
    ELSE IF paste /\ Len(b) >= 6 /\ SubSeq(b, 1, 6) = pasteEnd
    THEN [key |-> keyPasteEnd, rest |-> From(b, 6)]
    ELSE LET i == endOfSequence(b, 1)
         IN  IF i > 0 THEN [key |-> keyUnknown, rest |-> From(b, i)]
             ELSE [key |-> RuneError, rest |-> b]

isPrintable(key) == key >= 32 /\ ~(key >= 55296 /\ key <= 56319)

\* the editor state the keys work on: [line, pos]
RECURSIVE skipLeft(_, _, _)
skipLeft(l, p, onSpace) ==
    IF p <= 0 THEN p
    ELSE IF (l[p + 1] = 32) # onSpace THEN p
    ELSE skipLeft(l, p - 1, onSpace)

countToLeftWord(t) ==
    IF t.pos = 0 THEN 0
    ELSE LET p1 == skipLeft(t.line, t.pos - 1, TRUE)
             p2 == skipLeft(t.line, p1, FALSE)
             p3 == IF p2 > 0 THEN p2 + 1 ELSE p2
         IN  t.pos - p3

RECURSIVE skipRight(_, _, _)
skipRight(l, p, onSpace) ==
    IF p >= Len(l) THEN p
    ELSE IF (l[p + 1] = 32) # onSpace THEN p
    ELSE skipRight(l, p + 1, onSpace)

countToRightWord(t) ==
    skipRight(t.line, skipRight(t.line, t.pos, FALSE), TRUE) - t.pos

\* strconv.Itoa of a number that is not negative
RECURSIVE Itoa(_)
Itoa(n) == IF n < 10 THEN <<48 + n>> ELSE Itoa(n \div 10) \o <<48 + (n % 10)>>

\* []byte(string(r)): the UTF-8 bytes of one rune below 65536; a rune of the
\* surrogate range is written as U+FFFD
encodeRune(r) ==
    IF r < 128 THEN <<r>>
    ELSE IF r < 2048 THEN <<192 + (r \div 64), 128 + (r % 64)>>
    ELSE IF r >= 55296 /\ r <= 57343 THEN <<239, 191, 189>>
    ELSE <<224 + (r \div 4096), 128 + ((r \div 64) % 64), 128 + (r % 64)>>

RECURSIVE bytesOf(_)
bytesOf(runes) ==
    IF runes = <<>> THEN <<>>
    ELSE encodeRune(Head(runes)) \o bytesOf(Tail(runes))

\* []rune(string(runes)): a rune of the surrogate range comes back as U+FFFD
String(runes) ==
    [i \in 1..Len(runes) |->
        IF runes[i] >= 55296 /\ runes[i] <= 57343 THEN RuneError ELSE runes[i]]

isSpace(r) == r \in {9, 10, 11, 12, 13, 32, 133, 160}

RECURSIVE TrimLeft(_)
TrimLeft(s) ==
    IF s # <<>> /\ isSpace(Head(s)) THEN TrimLeft(Tail(s)) ELSE s

RECURSIVE TrimRight(_)
TrimRight(s) ==
    IF s # <<>> /\ isSpace(s[Len(s)])
    THEN TrimRight(SubSeq(s, 1, Len(s) - 1)) ELSE s

TrimSpace_kept(s) == s

TrimSpace(s) == TrimRight(TrimLeft(s))

(***************************************************************************)
(* stRingBuffer: [entries, max, head, size].  entries maps the indices     *)
(* that were assigned to their strings, every other index below max holds  *)
(* the empty string make() put there; max = 0 stands for the nil slice.    *)
(***************************************************************************)
defaultNumEntries == 100

EmptyRing == [entries |-> <<>>, max |-> 0, head |-> 0, size |-> 0]

\* s.entries[index]
entryAt(s, index) ==
    IF index \in DOMAIN s.entries THEN s.entries[index] ELSE <<>>

Add(s, a) ==
    LET m == IF s.max = 0 THEN defaultNumEntries ELSE s.max
        h == (s.head + 1) % m
    IN  [entries |-> [i \in DOMAIN s.entries \cup {h} |->
                         IF i = h THEN a ELSE s.entries[i]],
         max |-> m,
         head |-> h,
         size |-> IF s.size < m THEN s.size + 1 ELSE s.size]

\* [value, ok, panic]: panic when the index lies outside the slice
NthPreviousEntry(s, n) ==
    IF n >= s.size THEN [value |-> <<>>, ok |-> FALSE, panic |-> FALSE]
    ELSE LET i == s.head - n
             index == IF i < 0 THEN i + s.max ELSE i
         IN  IF index < 0 \/ index >= s.max
             THEN [value |-> <<>>, ok |-> FALSE, panic |-> TRUE]
             ELSE [value |-> entryAt(s, index), ok |-> TRUE, panic |-> FALSE]

(***************************************************************************)
(* The editor record t holds the fields of Terminal the keys work on:      *)
(* line, pos, cursorX, cursorY, maxLine, termWidth, termHeight, prompt,    *)
(* echo, outBuf, history, historyIndex, historyPending, ac (the four       *)
(* autocomplete fields) and fault, set when writeLine cannot make progress.*)
(***************************************************************************)
queue(t, data) == [t EXCEPT !.outBuf = @ \o bytesOf(data)]

space == <<32>>

RECURSIVE visualLengthFrom(_, _)
visualLengthFrom(runes, inEscapeSeq) ==
    IF runes = <<>> THEN 0
    ELSE LET r == Head(runes)
         IN  IF inEscapeSeq THEN visualLengthFrom(Tail(runes), ~isAlpha(r))
             ELSE IF r = keyEscape THEN visualLengthFrom(Tail(runes), TRUE)
             ELSE 1 + visualLengthFrom(Tail(runes), FALSE)

visualLength(runes) == visualLengthFrom(runes, FALSE)

moveSeq(n, letter) ==
    IF n = 1 THEN <<keyEscape, 91, letter>>
    ELSE IF n > 1 THEN <<keyEscape, 91>> \o Itoa(n) \o <<letter>>
    ELSE <<>>

move(t, up, down, left, right) ==
    queue(t, moveSeq(up, 65) \o moveSeq(down, 66) \o moveSeq(right, 67)
             \o moveSeq(left, 68))

moveCursorToPos_promptForgotten(t, p) ==
    IF ~t.echo THEN t
    ELSE LET y == p \div t.termWidth
             x == p % t.termWidth
             up == IF y < t.cursorY THEN t.cursorY - y ELSE 0
             down == IF y > t.cursorY THEN y - t.cursorY ELSE 0
             left == IF x < t.cursorX THEN t.cursorX - x ELSE 0
             right == IF x > t.cursorX THEN x - t.cursorX ELSE 0
         IN  move([t EXCEPT !.cursorX = x, !.cursorY = y], up, down, left, right)

moveCursorToPos(t, p) ==
    IF ~t.echo THEN t
    ELSE LET x0 == visualLength(t.prompt) + p
             y == x0 \div t.termWidth
             x == x0 % t.termWidth
             up == IF y < t.cursorY THEN t.cursorY - y ELSE 0
             down == IF y > t.cursorY THEN y - t.cursorY ELSE 0
             left == IF x < t.cursorX THEN t.cursorX - x ELSE 0
             right == IF x > t.cursorX THEN x - t.cursorX ELSE 0
         IN  move([t EXCEPT !.cursorX = x, !.cursorY = y], up, down, left, right)

clearLineToRight(t) == queue(t, <<keyEscape, 91, 75>>)

advanceCursor_keepsMaxLine(t, places) ==
    LET x == t.cursorX + places
        t1 == [t EXCEPT !.cursorX = x % t.termWidth,
                        !.cursorY = @ + (x \div t.termWidth)]
    IN  IF places > 0 /\ t1.cursorX = 0
        THEN [t1 EXCEPT !.outBuf = @ \o <<13, 10>>]
        ELSE t1

advanceCursor(t, places) ==
    LET x == t.cursorX + places
        y == t.cursorY + (x \div t.termWidth)
        t1 == [t EXCEPT !.cursorX = x % t.termWidth,
                        !.cursorY = y,
                        !.maxLine = IF y > @ THEN y ELSE @]
    IN  IF places > 0 /\ t1.cursorX = 0
        THEN [t1 EXCEPT !.outBuf = @ \o <<13, 10>>]
        ELSE t1

\* writeLine; with no room left on the row the loop of the code makes no
\* progress (or slices out of range): fault
RECURSIVE writeLine(_, _)
writeLine(t, l) ==
    IF Len(l) = 0 THEN t
    ELSE LET remainingOnLine == t.termWidth - t.cursorX
             todo == IF Len(l) > remainingOnLine THEN remainingOnLine ELSE Len(l)
         IN  IF todo <= 0 THEN [t EXCEPT !.fault = TRUE]
             ELSE writeLine(advanceCursor(queue(t, SubSeq(l, 1, todo)),
                                          visualLength(SubSeq(l, 1, todo))),
                            From(l, todo))

\* writeLine(space), n times
RECURSIVE writeSpaces(_, _)
writeSpaces(t, n) ==
    IF n <= 0 THEN t ELSE writeSpaces(writeLine(t, space), n - 1)

\* queue(space) and advanceCursor(1), n times
RECURSIVE blankCells(_, _)
blankCells(t, n) ==
    IF n <= 0 THEN t ELSE blankCells(advanceCursor(queue(t, space), 1), n - 1)

eraseNPreviousChars(t, n0) ==
    IF n0 = 0 THEN t
    ELSE LET n == IF t.pos < n0 THEN t.pos ELSE n0
             t1 == moveCursorToPos([t EXCEPT !.pos = @ - n], t.pos - n)
             t2 == [t1 EXCEPT !.line = SubSeq(t.line, 1, t1.pos)
                                       \o From(t.line, t1.pos + n)]
         IN  IF ~t2.echo THEN t2
             ELSE LET a == writeLine(t2, From(t2.line, t2.pos))
                      b == queue(a, [i \in 1..n |-> 32])
                  IN  moveCursorToPos(advanceCursor(b, n), t2.pos)

addKeyToLine(t, key) ==
    LET t1 == [t EXCEPT !.line = SubSeq(t.line, 1, t.pos) \o <<key>>
                                  \o From(t.line, t.pos)]
        t2 == IF t1.echo THEN writeLine(t1, From(t1.line, t1.pos)) ELSE t1
    IN  moveCursorToPos([t2 EXCEPT !.pos = @ + 1], t2.pos + 1)

setLine(t, newLine, newPos) ==
    LET t1 == IF ~t.echo THEN t
              ELSE LET a == writeLine(moveCursorToPos(t, 0), newLine)
                       b == writeSpaces(a, Len(t.line) - Len(newLine))
                   IN  moveCursorToPos(b, newPos)
    IN  [t1 EXCEPT !.line = newLine, !.pos = newPos]

AcNone == [autoCompleting |-> FALSE, autoCompleteIndex |-> 0,
           autoCompletePendng |-> <<>>, autoCompletePos |-> 0]

resetAutoComplete(t) == [t EXCEPT !.ac = AcNone]

\* the keys of handleKey's first switch
resetKeys ==
    {keyBackspace, keyAltLeft, keyAltRight, keyLeft, keyRight, keyHome, keyEnd,
     keyDel, keyUp, keyDown, keyEnter, keyDeleteWord, keyDeleteLine, keyCtrlD,
     keyCtrlU, keyClearScreen}

\* the switch of handleKey: [t, line, ok, callback]; callback is TRUE when
\* the key reached the call of AutoCompleteCallback, where the lock is given up
handleKeyCases(t0, key) ==
    LET t == IF key \in resetKeys THEN resetAutoComplete(t0) ELSE t0
        same == [t |-> t, line |-> <<>>, ok |-> FALSE, callback |-> FALSE]
        to(u) == [t |-> u, line |-> <<>>, ok |-> FALSE, callback |-> FALSE]
        at(p) == to(moveCursorToPos([t EXCEPT !.pos = p], p))
    IN  CASE key = keyDel ->
               IF t.pos >= Len(t.line) \/ Len(t.line) = 0 THEN same
               ELSE to(eraseNPreviousChars([t EXCEPT !.pos = @ + 1], 1))
          [] key = keyBackspace ->
               IF t.pos = 0 THEN same ELSE to(eraseNPreviousChars(t, 1))
          [] key = keyAltLeft -> at(t.pos - countToLeftWord(t))
          [] key = keyAltRight -> at(t.pos + countToRightWord(t))
          [] key = keyLeft -> IF t.pos = 0 THEN same ELSE at(t.pos - 1)
          [] key = keyRight ->
               IF t.pos = Len(t.line) THEN same ELSE at(t.pos + 1)
          [] key = keyHome -> IF t.pos = 0 THEN same ELSE at(0)
          [] key = keyEnd ->
               IF t.pos = Len(t.line) THEN same ELSE at(Len(t.line))
          [] key = keyUp ->
               LET e == NthPreviousEntry(t.history, t.historyIndex + 1)
               IN  IF e.panic THEN to([t EXCEPT !.fault = TRUE])
                   ELSE IF ~e.ok THEN same
                   ELSE LET t1 == [t EXCEPT
                                     !.historyPending =
                                        IF t.historyIndex = 0 - 1
                                        THEN String(t.line) ELSE @,
                                     !.historyIndex = @ + 1]
                        IN  to(setLine(t1, e.value, Len(e.value)))
          [] key = keyDown ->
               IF t.historyIndex = 0 - 1 THEN same
               ELSE IF t.historyIndex = 0
               THEN to([setLine(t, t.historyPending, Len(t.historyPending))
                          EXCEPT !.historyIndex = @ - 1])
               ELSE LET e == NthPreviousEntry(t.history, t.historyIndex - 1)
                    IN  IF e.panic THEN to([t EXCEPT !.fault = TRUE])
                        ELSE IF ~e.ok THEN same
                        ELSE to(setLine([t EXCEPT !.historyIndex = @ - 1],
                                        e.value, Len(e.value)))
          [] key = keyEnter ->
               LET t1 == queue(moveCursorToPos(t, Len(t.line)), <<13, 10>>)
               IN  [t |-> [t1 EXCEPT !.line = <<>>, !.pos = 0, !.cursorX = 0,
                                     !.cursorY = 0, !.maxLine = 0],
                    line |-> String(t.line), ok |-> TRUE, callback |-> FALSE]
          [] key = keyDeleteWord -> to(eraseNPreviousChars(t, countToLeftWord(t)))
          [] key = keyDeleteLine ->
               LET t1 == blankCells(t, Len(t.line) - t.pos)
               IN  to(moveCursorToPos([t1 EXCEPT !.line = SubSeq(t.line, 1, t.pos)],
                                      t.pos))
          [] key = keyCtrlD ->
               IF t.pos < Len(t.line)
               THEN to(eraseNPreviousChars([t EXCEPT !.pos = @ + 1], 1))
               ELSE same
          [] key = keyCtrlU -> to(eraseNPreviousChars(t, t.pos))
          [] key = keyClearScreen ->
               LET a == queue(queue(t, <<keyEscape, 91, 50, 74, keyEscape, 91, 72>>),
                              t.prompt)
                   b == advanceCursor([a EXCEPT !.cursorX = 0, !.cursorY = 0],
                                      visualLength(t.prompt))
               IN  to(setLine(b, b.line, b.pos))
          [] key = keyCtrlC ->
               LET a == queue(queue(t, <<94, 67, 13, 10>>), t.prompt)
                   b == advanceCursor([a EXCEPT !.cursorX = 0],
                                      visualLength(t.prompt))
               IN  to(setLine(b, <<>>, 0))
          [] OTHER -> [t |-> t, line |-> <<>>, ok |-> FALSE, callback |-> TRUE]

\* handleKey with Ctrl-D erasing the code point before the cursor
handleKey_ctrlDErasesLeft(t, paste, key) ==
    IF paste /\ key # keyEnter
    THEN [t |-> addKeyToLine(resetAutoComplete(t), key), line |-> <<>>,
          ok |-> FALSE, callback |-> FALSE]
    ELSE handleKeyCases(t, IF key = keyCtrlD THEN keyBackspace ELSE key)

\* handleKey up to its return or to the call of AutoCompleteCallback: inside
\* a paste every key but Enter goes into the line
handleKey(t, paste, key) ==
    IF paste /\ key # keyEnter
    THEN [t |-> addKeyToLine(resetAutoComplete(t), key), line |-> <<>>,
          ok |-> FALSE, callback |-> FALSE]
    ELSE handleKeyCases(t, key)

\* writeWithCRLF: the bytes that reach the channel
RECURSIVE writeWithCRLF(_)
writeWithCRLF(buf) ==
    IF buf = <<>> THEN <<>>
    ELSE IF Head(buf) = 10 THEN <<13, 10>> \o writeWithCRLF(Tail(buf))
    ELSE <<Head(buf)>> \o writeWithCRLF(Tail(buf))

\* Write's loop over the rows above the cursor
RECURSIVE clearRowsUp(_)
clearRowsUp(t) ==
    IF t.cursorY > 0
    THEN clearRowsUp(clearLineToRight([move(t, 1, 0, 0, 0) EXCEPT !.cursorY = @ - 1]))
    ELSE t

\* Write that repaints an empty line in place of the current one
Write_dropsLine(t, buf) ==
    IF t.cursorX = 0 /\ t.cursorY = 0
    THEN [t |-> t, sent |-> writeWithCRLF(buf), n |-> Len(buf)]
    ELSE LET a == clearLineToRight([move(t, 0, 0, t.cursorX, 0) EXCEPT !.cursorX = 0])
             b == clearRowsUp(a)
             c == writeLine([b EXCEPT !.outBuf = <<>>, !.line = <<>>, !.pos = 0],
                            t.prompt)
             e == moveCursorToPos(c, c.pos)
         IN  [t |-> [e EXCEPT !.outBuf = <<>>],
              sent |-> b.outBuf \o writeWithCRLF(buf) \o e.outBuf,
              n |-> Len(buf)]

\* Write that leaves the cursor where the repainted line ends
Write_cursorAtEnd(t, buf) ==
    IF t.cursorX = 0 /\ t.cursorY = 0
    THEN [t |-> t, sent |-> writeWithCRLF(buf), n |-> Len(buf)]
    ELSE LET a == clearLineToRight([move(t, 0, 0, t.cursorX, 0) EXCEPT !.cursorX = 0])
             b == clearRowsUp(a)
             c == writeLine([b EXCEPT !.outBuf = <<>>], t.prompt)
             d == IF c.echo THEN writeLine(c, c.line) ELSE c
         IN  [t |-> [d EXCEPT !.outBuf = <<>>],
              sent |-> b.outBuf \o writeWithCRLF(buf) \o d.outBuf,
              n |-> Len(buf)]

\* Write outside raw mode, the channel taking every write: [t, sent, n]
Write(t, buf) ==
    IF t.cursorX = 0 /\ t.cursorY = 0
    THEN [t |-> t, sent |-> writeWithCRLF(buf), n |-> Len(buf)]
    ELSE LET a == clearLineToRight([move(t, 0, 0, t.cursorX, 0) EXCEPT !.cursorX = 0])
             b == clearRowsUp(a)
             c == writeLine([b EXCEPT !.outBuf = <<>>], t.prompt)
             d == IF c.echo THEN writeLine(c, c.line) ELSE c
             e == moveCursorToPos(d, d.pos)
         IN  [t |-> [e EXCEPT !.outBuf = <<>>],
              sent |-> b.outBuf \o writeWithCRLF(buf) \o e.outBuf,
              n |-> Len(buf)]

RECURSIVE clearRowsDown(_, _)
clearRowsDown(t, numPrevLines) ==
    IF t.cursorY < numPrevLines
    THEN clearRowsDown(clearLineToRight([move(t, 0, 1, 0, 0) EXCEPT !.cursorY = @ + 1]),
                       numPrevLines)
    ELSE t

clearAndRepaintLinePlusNPrevious(t, numPrevLines) ==
    LET a == clearLineToRight([move(t, t.cursorY, 0, t.cursorX, 0)
                                 EXCEPT !.cursorX = 0, !.cursorY = 0])
        b == clearRowsDown(a, numPrevLines)
        c == [move(b, b.cursorY, 0, 0, 0) EXCEPT !.cursorX = 0, !.cursorY = 0]
        d == advanceCursor(queue(c, c.prompt), visualLength(c.prompt))
    IN  moveCursorToPos(writeLine(d, d.line), d.pos)

\* a SetSize that repaints whatever the old width and the screen were
SetSize_alwaysRepaints(t, width0, height) ==
    LET width == IF width0 = 0 THEN 1 ELSE width0
        t1 == [t EXCEPT !.termWidth = width, !.termHeight = height]
        u == clearAndRepaintLinePlusNPrevious(t1, t1.maxLine)
    IN  [t |-> [u EXCEPT !.outBuf = <<>>], sent |-> u.outBuf]

\* SetSize: [t, sent]
SetSize(t, width0, height) ==
    LET width == IF width0 = 0 THEN 1 ELSE width0
        oldWidth == t.termWidth
        t1 == [t EXCEPT !.termWidth = width, !.termHeight = height]
        flush(u) == [t |-> [u EXCEPT !.outBuf = <<>>], sent |-> u.outBuf]
    IN  IF width = oldWidth THEN [t |-> t1, sent |-> <<>>]
        ELSE IF Len(t1.line) = 0 /\ t1.cursorX = 0 /\ t1.cursorY = 0
        THEN [t |-> t1, sent |-> <<>>]
        ELSE IF width < oldWidth
        THEN LET a == [t1 EXCEPT !.cursorX = IF @ >= width THEN width - 1 ELSE @,
                                 !.cursorY = @ * 2]
             IN  flush(clearAndRepaintLinePlusNPrevious(a, a.maxLine * 2))
        ELSE flush(clearAndRepaintLinePlusNPrevious(t1, t1.maxLine))

\* Clear
Clear(t) ==
    LET a == queue(queue(t, <<keyEscape, 91, 50, 74, keyEscape, 91, 72>>), t.prompt)
        b == advanceCursor([a EXCEPT !.cursorX = 0, !.cursorY = 0],
                           visualLength(t.prompt))
    IN  setLine(b, b.line, b.pos)


(***************************************************************************)
(* The line parser (its code is not among the source files): whitespace    *)
(* separates tokens, the first token is the command, a later token that    *)
(* begins with a dash is a flag whose name is what follows the dashes up   *)
(* to the first '='.  An empty or blank line has no command.               *)
(***************************************************************************)
RECURSIVE takeToken(_, _)
takeToken(l, i) ==
    IF i > Len(l) \/ l[i] = 32 THEN i - 1 ELSE takeToken(l, i + 1)

RECURSIVE Tokens(_)
Tokens(l) ==
    IF l = <<>> THEN <<>>
    ELSE IF l[1] = 32 THEN Tokens(Tail(l))
    ELSE LET e == takeToken(l, 1)
         IN  <<SubSeq(l, 1, e)>> \o Tokens(From(l, e))

RECURSIVE flagName(_)
flagName(tok) ==
    IF tok = <<>> THEN <<>>
    ELSE IF tok[1] = 45 THEN flagName(Tail(tok))
    ELSE LET eq == { i \in 1..Len(tok) : tok[i] = 61 }
         IN  IF eq = {} THEN tok
             ELSE SubSeq(tok, 1, (CHOOSE i \in eq : \A j \in eq : i <= j) - 1)

\* the tokens of l from index i on with their offsets: [start, end) in bytes
RECURSIVE nodesFrom(_, _)
nodesFrom(l, i) ==
    IF i > Len(l) THEN <<>>
    ELSE IF l[i] = 32 THEN nodesFrom(l, i + 1)
    ELSE LET e == takeToken(l, i)
         IN  <<[start |-> i - 1, end |-> e, value |-> SubSeq(l, i, e)]>>
             \o nodesFrom(l, e + 1)

FocusNil == [nil |-> TRUE, type |-> "", start |-> 0, end |-> 0, value |-> <<>>]

\* the token the cursor is in or right behind
Focus(l, cursor) ==
    LET ns == nodesFrom(l, 1)
        at == { k \in 1..Len(ns) : ns[k].start <= cursor /\ cursor <= ns[k].end }
    IN  IF at = {} THEN FocusNil
        ELSE LET k == CHOOSE k \in at : TRUE
             IN  [nil |-> FALSE,
                  type |-> IF k = 1 THEN "cmd"
                           ELSE IF ns[k].value[1] = 45 THEN "flag" ELSE "arg",
                  start |-> ns[k].start, end |-> ns[k].end,
                  value |-> ns[k].value]

ParseLine(l, cursor) ==
    LET toks == Tokens(l)
    IN  [Command |-> IF toks = <<>> THEN <<>> ELSE <<toks[1]>>,
         Flags |-> { flagName(toks[i]) :
                       i \in { j \in 2..Len(toks) : toks[j][1] = 45 } },
         Focus |-> Focus(l, cursor)]

(***************************************************************************)
(* Run: the dispatcher.                                                    *)
(***************************************************************************)
\* Terminal.functions: the registered commands "l" and "q", each with the
\* flag names of its ValidArgs(): "l" takes "v", "q" takes none
functions == (<<108>> :> {<<118>>}) @@ (<<113>> :> {})

flag_h == <<104>>
flag_help == <<104, 101, 108, 112>>

\* sort.Strings' order on strings
RECURSIVE StrLess(_, _)
StrLess(a, b) ==
    IF b = <<>> THEN FALSE
    ELSE IF a = <<>> THEN TRUE
    ELSE IF a[1] # b[1] THEN a[1] < b[1]
    ELSE StrLess(Tail(a), Tail(b))

RECURSIVE sortStrings(_)
sortStrings(S) ==
    IF S = {} THEN <<>>
    ELSE LET m == CHOOSE m \in S : \A o \in S \ {m} : StrLess(m, o)
         IN  <<m>> \o sortStrings(S \ {m})

(***************************************************************************)
(* Autocomplete.  The commands registered with AddCommands are those of    *)
(* the scenario help, hello, exit; none of them expects arguments.         *)
(***************************************************************************)
cmdHelp == <<104, 101, 108, 112>>
cmdHello == <<104, 101, 108, 108, 111>>
cmdExit == <<101, 120, 105, 116>>

\* the strings added to Terminal.functionsAutoComplete
functionsAutoComplete == {cmdHelp, cmdHello, cmdExit}

\* Trie.PrefixMatch
PrefixMatch(strs, p) ==
    { x \in strs : Len(x) >= Len(p) /\ SubSeq(x, 1, Len(p)) = p }

startAutoComplete(t, lineFragment, p) ==
    [t EXCEPT !.ac = [autoCompleting |-> TRUE, autoCompleteIndex |-> 0,
                      autoCompletePendng |-> lineFragment,
                      autoCompletePos |-> p]]

\* buildDisplayLine: [output, newPos]
buildDisplayLine(focus, l, match, currentPos) ==
    IF focus.nil
    THEN [output |-> SubSeq(l, 1, currentPos) \o match \o From(l, currentPos),
          newPos |-> currentPos + Len(match)]
    ELSE LET head == CASE focus.type = "cmd" -> <<>>
                       [] focus.type = "arg" -> SubSeq(l, 1, focus.start)
                       [] OTHER -> SubSeq(l, 1, focus.end) \o <<32>>
         IN  [output |-> head \o match \o From(l, focus.end),
              newPos |-> Len(head) + Len(match)]

\* the candidates of defaultAutoComplete for the parsed completion base
matchesOf(parsedLine) ==
    IF parsedLine.Command = <<>> THEN PrefixMatch(functionsAutoComplete, <<>>)
    ELSE IF ~parsedLine.Focus.nil /\ parsedLine.Focus.start = 0
    THEN PrefixMatch(functionsAutoComplete, parsedLine.Focus.value)
    ELSE {}

\* the Tab branch of defaultAutoComplete once the base is set
completeFrom_noWrap(t1, l, p) ==
    LET matches == sortStrings(matchesOf(ParseLine(t1.ac.autoCompletePendng,
                                                   t1.ac.autoCompletePos)))
        focus == ParseLine(l, p).Focus
        none == [t |-> t1, ok |-> FALSE, newLine |-> <<>>, newPos |-> 0]
    IN  IF Len(matches) = 1
        THEN LET d == buildDisplayLine(focus, l, matches[1], p)
                 cmd == ~focus.nil /\ focus.type = "cmd"
             IN  [t |-> resetAutoComplete(t1), ok |-> TRUE,
                  newLine |-> IF cmd THEN d.output \o <<32>> ELSE d.output,
                  newPos |-> IF cmd THEN d.newPos + 1 ELSE d.newPos]
        ELSE IF Len(matches) > 1
        THEN IF t1.ac.autoCompleteIndex >= Len(matches) THEN none
             ELSE LET d == buildDisplayLine(focus, l,
                               matches[t1.ac.autoCompleteIndex + 1], p)
             IN  [t |-> [t1 EXCEPT !.ac.autoCompleteIndex = @ + 1],
                  ok |-> TRUE, newLine |-> d.output, newPos |-> d.newPos]
        ELSE none

completeFrom(t1, l, p) ==
    LET matches == sortStrings(matchesOf(ParseLine(t1.ac.autoCompletePendng,
                                                   t1.ac.autoCompletePos)))
        focus == ParseLine(l, p).Focus
        none == [t |-> t1, ok |-> FALSE, newLine |-> <<>>, newPos |-> 0]
    IN  IF Len(matches) = 1
        THEN LET d == buildDisplayLine(focus, l, matches[1], p)
                 cmd == ~focus.nil /\ focus.type = "cmd"
             IN  [t |-> resetAutoComplete(t1), ok |-> TRUE,
                  newLine |-> IF cmd THEN d.output \o <<32>> ELSE d.output,
                  newPos |-> IF cmd THEN d.newPos + 1 ELSE d.newPos]
        ELSE IF Len(matches) > 1
        THEN LET d == buildDisplayLine(focus, l,
                          matches[t1.ac.autoCompleteIndex + 1], p)
             IN  [t |-> [t1 EXCEPT !.ac.autoCompleteIndex =
                                      (@ + 1) % Len(matches)],
                  ok |-> TRUE, newLine |-> d.output, newPos |-> d.newPos]
        ELSE none

\* defaultAutoComplete(term, line, pos, key): [t, ok, newLine, newPos]
defaultAutoComplete(t, key) ==
    IF key = 9
    THEN completeFrom(IF t.ac.autoCompleting THEN t
                      ELSE startAutoComplete(t, t.line, t.pos),
                      t.line, t.pos)
    ELSE [t |-> resetAutoComplete(t), ok |-> FALSE, newLine |-> <<>>,
          newPos |-> 0]

\* handleKey from the return of AutoCompleteCallback
handleKeyAfterCallback(t, key) ==
    LET c == defaultAutoComplete(t, key)
    IN  IF c.ok THEN setLine(c.t, c.newLine, c.newPos)
        ELSE IF ~isPrintable(key) THEN c.t
        ELSE IF Len(c.t.line) = maxLineLength THEN c.t
        ELSE addKeyToLine(c.t, key)

removeDuplicates(stringsSlice) ==
    sortStrings({ stringsSlice[i] : i \in 1..Len(stringsSlice) })

\* the orders in which a map's keys may be iterated
Orderings(S) ==
    { o \in [1..Cardinality(S) -> S] :
        \A i, j \in 1..Cardinality(S) : i # j => o[i] # o[j] }

Msg(kind, cmd, flags) == [kind |-> kind, cmd |-> cmd, flags |-> flags]

\* the dispatch with the flags never validated
RunDispatch_noFlagCheck(parsedLine, order) ==
    IF parsedLine.Command = <<>> THEN [printed |-> <<>>, invoke |-> FALSE]
    ELSE LET cmd == parsedLine.Command[1]
         IN  IF cmd \notin DOMAIN functions
             THEN [printed |-> <<Msg("Unknown command", cmd, <<>>)>>,
                   invoke |-> FALSE]
             ELSE IF flag_h \in parsedLine.Flags \/ flag_help \in parsedLine.Flags
             THEN [printed |-> <<Msg("Help", cmd, <<>>)>>, invoke |-> FALSE]
             ELSE [printed |-> <<>>, invoke |-> TRUE]

\* the body of Run's loop from the parsed line to the handler's call: what
\* is printed and whether the handler runs; order is the iteration order of
\* the flag map
RunDispatch(parsedLine, order) ==
    IF parsedLine.Command = <<>> THEN [printed |-> <<>>, invoke |-> FALSE]
    ELSE LET cmd == parsedLine.Command[1]
         IN  IF cmd \notin DOMAIN functions
             THEN [printed |-> <<Msg("Unknown command", cmd, <<>>)>>,
                   invoke |-> FALSE]
             ELSE IF flag_h \in parsedLine.Flags \/ flag_help \in parsedLine.Flags
             THEN [printed |-> <<Msg("Help", cmd, <<>>)>>, invoke |-> FALSE]
             ELSE LET validFlags == functions[cmd]
                      bad(flag) == /\ flag \notin validFlags
                                   /\ ~(flag = flag_h \/ flag = flag_help)
                      failed == SelectSeq(order, bad)
                  IN  IF Len(failed) > 0
                      THEN [printed |-> <<Msg("invalid flag", cmd,
                                              removeDuplicates(failed)),
                                          Msg("Help", cmd, <<>>)>>,
                            invoke |-> FALSE]
                      ELSE [printed |-> <<>>, invoke |-> TRUE]

RlNone == [line |-> <<>>, err |-> ""]
DispNone == [op |-> "none", cmd |-> <<>>, flags |-> {}, printed |-> <<>>,
             invoked |-> FALSE, herr |-> ""]

\* what a command handler's Run may return: nil, io.EOF, another error
HandlerErrs == {"", EOF, "failed"}

(***************************************************************************)
(* The editor as a state machine.  T is the editor record of the current   *)
(* state and SetT installs one as the next state.                          *)
(***************************************************************************)
T == [line |-> line, pos |-> pos, cursorX |-> cursorX, cursorY |-> cursorY,
      maxLine |-> maxLine, termWidth |-> termWidth, termHeight |-> termHeight,
      prompt |-> prompt, echo |-> echo, outBuf |-> outBuf,
      history |-> history, historyIndex |-> historyIndex,
      historyPending |-> historyPending, ac |-> ac, fault |-> fault]

SetT(t) ==
    /\ line' = t.line /\ pos' = t.pos
    /\ cursorX' = t.cursorX /\ cursorY' = t.cursorY /\ maxLine' = t.maxLine
    /\ termWidth' = t.termWidth /\ termHeight' = t.termHeight
    /\ prompt' = t.prompt /\ echo' = t.echo /\ outBuf' = t.outBuf
    /\ history' = t.history /\ historyIndex' = t.historyIndex
    /\ historyPending' = t.historyPending /\ ac' = t.ac /\ fault' = t.fault

Io(op, arg, bytes) == [op |-> op, arg |-> arg, sent |-> bytes]
IoNone == Io("none", <<>>, <<>>)

\* t.lock.Unlock() and t.lock.Lock()
Unlock_kept(holder) == holder
Unlock(holder) == ""
Lock(who) == who

inBufSize == 256

\* copy(t.inBuf[:], data)
copyToInBuf(data) ==
    IF Len(data) > inBufSize THEN SubSeq(data, 1, inBufSize) ELSE data

NoOverflow == [made |-> FALSE, buf |-> <<>>]
RdNone == [data |-> <<>>, n |-> 0, err |-> ""]
OwedNone == [bytes |-> <<>>, how |-> ""]
NthNone == [called |-> FALSE, n |-> 0, value |-> <<>>, ok |-> FALSE,
            panic |-> FALSE]

\* the prompt a terminal is made with
Prompts == {<<>>, <<62>>}

\* NewAdvancedTerminal(c, user, session, prompt0)
NewAdvancedTerminal(prompt0) ==
    /\ line = <<>> /\ pos = 0 /\ cursorX = 0 /\ cursorY = 0 /\ maxLine = 0
    /\ termWidth = 80 /\ termHeight = 24 /\ prompt = prompt0 /\ echo = TRUE
    /\ outBuf = <<>> /\ history = EmptyRing /\ historyIndex = 0 - 1
    /\ historyPending = <<>> /\ ac = AcNone /\ fault = FALSE
    /\ pasteActive = FALSE /\ remainder = <<>> /\ rest = <<>>
    /\ lineIsPasted = FALSE /\ lastKey = 0
    /\ raw = FALSE /\ rawOverflow = NoOverflow
    /\ workers = <<[st |-> "select", w |-> 0, h |-> 0]>>
    /\ reqOpen = TRUE /\ pty = [Columns |-> 80, Rows |-> 24]
    /\ rd = [st |-> "idle", atDisable |-> ""] /\ rdret = RdNone
    /\ owed = OwedNone
    /\ adds = 0 /\ nth = NthNone /\ oldPrompt = <<>>
    /\ pc = "call" /\ lock = "" /\ rl = RlNone /\ disp = DispNone
    /\ io = IoNone /\ typed = FALSE

InitTerminal == NewAdvancedTerminal(<<62>>)

\* Run from the return of ReadLine to the next turn of the loop
Run ==
    /\ pc = "ret"
    /\ IF rl.err # ""
       THEN pc' = "done" /\ UNCHANGED <<rl, disp>>
       ELSE \E herr \in HandlerErrs :
            LET parsedLine == ParseLine(rl.line, pos)
            IN  \E order \in Orderings(parsedLine.Flags) :
                LET d == RunDispatch(parsedLine, order)
                    e == IF d.invoke THEN herr ELSE ""
                IN  /\ disp' = [op |-> "Run", cmd |-> parsedLine.Command,
                                flags |-> parsedLine.Flags,
                                printed |-> IF e \notin {"", EOF}
                                            THEN d.printed \o <<Msg(e, <<>>, <<>>)>>
                                            ELSE d.printed,
                                invoked |-> d.invoke, herr |-> e]
                    /\ pc' = IF e = EOF THEN "done" ELSE "call"
                    /\ rl' = RlNone
    /\ io' = IoNone
    /\ UNCHANGED <<edVars, rdVars, rawVars, lock, typed, regVars, ringVars, oldPrompt>>

\* readLine up to its key loop: the prompt is written when nothing is on
\* the screen; with an overflow channel it waits for the channel's message
readLine ==
    /\ pc = "call" /\ lock = ""
    /\ IF cursorX = 0 /\ cursorY = 0
       THEN LET t == writeLine(T, prompt)
            IN  /\ SetT([t EXCEPT !.outBuf = <<>>])
                /\ io' = Io("ReadLine", <<>>, t.outBuf)
       ELSE /\ UNCHANGED edVars
            /\ io' = Io("ReadLine", <<>>, <<>>)
    /\ lineIsPasted' = pasteActive
    /\ lock' = Lock("ReadLine")
    /\ IF rawOverflow.made
       THEN pc' = "overflow" /\ UNCHANGED rest
       ELSE pc' = "keys" /\ rest' = remainder
    /\ owed' = IF rawOverflow.made THEN owed ELSE OwedNone
    /\ typed' = (Len(line) # 0 /\ typed)
    /\ disp' = DispNone
    /\ UNCHANGED <<pasteActive, remainder, lastKey, rl, raw, rawOverflow,
                   workers, reqOpen, pty, rd, rdret, regVars, ringVars, oldPrompt>>

\* ReadPassword(p) up to readLine's key loop: the prompt is p and echo is
\* off for the readLine it calls
ReadPasswordCall(p) ==
    /\ pc = "call" /\ lock = ""
    /\ oldPrompt' = prompt
    /\ LET t0 == [T EXCEPT !.prompt = p, !.echo = FALSE]
       IN  IF t0.cursorX = 0 /\ t0.cursorY = 0
           THEN LET t == writeLine(t0, t0.prompt)
                IN  /\ SetT([t EXCEPT !.outBuf = <<>>])
                    /\ io' = Io("ReadPassword", p, t.outBuf)
           ELSE /\ SetT(t0)
                /\ io' = Io("ReadPassword", p, <<>>)
    /\ lineIsPasted' = pasteActive
    /\ lock' = Lock("ReadLine")
    /\ IF rawOverflow.made
       THEN pc' = "overflow" /\ UNCHANGED rest
       ELSE pc' = "keys" /\ rest' = remainder
    /\ owed' = IF rawOverflow.made THEN owed ELSE OwedNone
    /\ typed' = (Len(line) # 0 /\ typed)
    /\ disp' = DispNone
    /\ UNCHANGED <<pasteActive, remainder, lastKey, rl, raw, rawOverflow,
                   workers, reqOpen, pty, rd, rdret, regVars, ringVars>>

\* readLine has returned to ReadPassword, which holds the lock: it puts the
\* prompt back, turns echo on and returns
ReadPasswordReturn ==
    /\ pc = "ret" /\ ~echo
    /\ prompt' = oldPrompt
    /\ echo' = TRUE
    /\ io' = Io("ReadPassword", <<>>, <<>>)
    /\ UNCHANGED <<line, pos, cursorX, cursorY, maxLine, termWidth, termHeight,
                   outBuf, history, historyIndex, historyPending, ac, fault,
                   rdVars, rawVars, pc, lock, rl, disp, typed, regVars,
                   ringVars, oldPrompt>>

\* readLine takes the message of the overflow channel as its remainder
readLineOverflow ==
    /\ pc = "overflow" /\ rawOverflow.buf # <<>>
    /\ remainder' = copyToInBuf(Head(rawOverflow.buf))
    /\ rest' = remainder'
    /\ rawOverflow' = NoOverflow
    /\ pc' = "keys"
    /\ io' = Io("ReadLine", <<>>, <<>>)
    /\ owed' = OwedNone
    /\ UNCHANGED <<edVars, pasteActive, lineIsPasted, lastKey, raw, workers,
                   reqOpen, pty, rd, rdret, lock, rl, disp, typed, regVars, ringVars, oldPrompt>>

\* the end of readLine's key loop: the rest is kept and outBuf is written
\* to the channel
leaveKeyLoop(t, r) ==
    /\ remainder' = copyToInBuf(r)
    /\ rest' = <<>>
    /\ io' = Io("ReadLine", <<>>, t.outBuf)

\* readLine after handleKey returned h for the key that left rest r
afterHandleKey(h, r, pasted) ==
    /\ UNCHANGED pasteActive
    /\ lineIsPasted' = pasted
    /\ typed' = (typed \/ ~pasteActive)
    /\ IF h.ok
       THEN /\ leaveKeyLoop(h.t, r)
            /\ SetT([h.t EXCEPT
                       !.outBuf = <<>>,
                       !.historyIndex = IF h.t.echo THEN 0 - 1 ELSE @,
                       !.history = IF h.t.echo /\ TrimSpace(h.line) # <<>>
                                   THEN Add(@, TrimSpace(h.line)) ELSE @])
            /\ rl' = [line |-> h.line,
                      err |-> IF pasted THEN ErrPasteIndicator ELSE ""]
            /\ pc' = "ret"
            /\ lock' = Unlock(lock)
       ELSE /\ SetT(h.t)
            /\ rest' = r
            /\ io' = Io("ReadLine", <<>>, <<>>)
            /\ pc' = IF h.callback THEN "complete" ELSE "keys"
            /\ lock' = IF h.callback THEN Unlock(lock) ELSE lock
            /\ UNCHANGED <<remainder, rl>>

\* one turn of readLine's key loop, bytesToKey having returned key and r
readLineTurn(key, r) ==
    /\ lastKey' = key
    /\ IF key = keyPanic
       THEN /\ pc' = "panic"
            /\ lock' = Unlock(lock)
            /\ io' = Io("ReadLine", <<>>, <<>>)
            /\ UNCHANGED <<edVars, pasteActive, remainder, rest,
                           lineIsPasted, rl, typed>>
       ELSE IF key = RuneError
       THEN /\ leaveKeyLoop(T, r)
            /\ SetT([T EXCEPT !.outBuf = <<>>])
            /\ pc' = "read"
            /\ lock' = Unlock(lock)
            /\ UNCHANGED <<pasteActive, lineIsPasted, rl, typed>>
       ELSE IF ~pasteActive /\ key = keyCtrlD /\ Len(line) = 0
       THEN /\ rl' = [line |-> <<>>, err |-> ErrCtrlD]
            /\ rest' = <<>>
            /\ pc' = "ret"
            /\ lock' = Unlock(lock)
            /\ io' = Io("ReadLine", <<>>, <<>>)
            /\ UNCHANGED <<edVars, pasteActive, remainder, lineIsPasted, typed>>
       ELSE IF ~pasteActive /\ key = keyPasteStart
       THEN /\ pasteActive' = TRUE
            /\ lineIsPasted' = (lineIsPasted \/ Len(line) = 0)
            /\ typed' = (Len(line) # 0 /\ typed)
            /\ rest' = r
            /\ io' = Io("ReadLine", <<>>, <<>>)
            /\ UNCHANGED <<edVars, remainder, pc, lock, rl>>
       ELSE IF pasteActive /\ key = keyPasteEnd
       THEN /\ pasteActive' = FALSE
            /\ rest' = r
            /\ io' = Io("ReadLine", <<>>, <<>>)
            /\ UNCHANGED <<edVars, remainder, lineIsPasted, pc, lock, rl, typed>>
       ELSE afterHandleKey(handleKey(T, pasteActive, key), r,
                           lineIsPasted /\ pasteActive)

\* one turn of readLine's key loop
readLineKeyOf(k) == readLineTurn(k.key, k.rest)

readLineKey ==
    /\ pc = "keys"
    /\ readLineKeyOf(bytesToKey(rest, pasteActive))
    /\ UNCHANGED <<disp, rawVars, regVars, ringVars, oldPrompt>>

\* AutoCompleteCallback returns and handleKey goes on under the lock
autoCompleteReturn ==
    /\ pc = "complete" /\ lock = ""
    /\ SetT(handleKeyAfterCallback(T, lastKey))
    /\ lock' = Lock("ReadLine")
    /\ pc' = "keys"
    /\ io' = Io("ReadLine", <<>>, <<>>)
    /\ UNCHANGED <<rdVars, rawVars, rl, disp, typed, regVars, ringVars, oldPrompt>>

\* the blocked read of readLine returns data
channelRead(data) ==
    /\ pc = "read" /\ lock = ""
    /\ Len(remainder) + Len(data) <= inBufSize
    /\ remainder' = remainder \o data
    /\ rest' = remainder \o data
    /\ lock' = Lock("ReadLine")
    /\ pc' = "keys"
    /\ io' = Io("ReadLine", <<>>, <<>>)
    /\ UNCHANGED <<edVars, pasteActive, lineIsPasted, lastKey, rawVars, rl,
                   disp, typed, regVars, ringVars, oldPrompt>>

\* the blocked read of readLine fails with err
channelReadError(err) ==
    /\ pc = "read" /\ lock = ""
    /\ rl' = [line |-> <<>>, err |-> err]
    /\ pc' = "ret"
    /\ io' = Io("ReadLine", <<>>, <<>>)
    /\ UNCHANGED <<edVars, rdVars, rawVars, lock, disp, typed, regVars, ringVars, oldPrompt>>

\* the caller of ReadLine takes the result and calls again
CallAgain ==
    /\ pc = "ret"
    /\ pc' = "call"
    /\ rl' = RlNone
    /\ io' = IoNone
    /\ UNCHANGED <<edVars, rdVars, rawVars, lock, disp, typed, regVars, ringVars, oldPrompt>>

\* t.lock.Lock() of another task returns: nobody holds the lock (a
\* ReadPassword whose readLine has returned still holds it)
LockFree == lock = "" /\ (pc = "ret" => echo)

\* Write from another task, outside raw mode
WriteCall(buf) ==
    /\ ~raw /\ LockFree
    /\ LET w == Write(T, buf)
       IN  /\ SetT(w.t)
           /\ io' = Io("Write", buf, w.sent)
    /\ UNCHANGED <<rdVars, rawVars, pc, lock, rl, disp, typed, regVars, ringVars, oldPrompt>>

\* SetSize from another task
SetSizeCall(width, height) ==
    /\ LockFree
    /\ LET s == SetSize(T, width, height)
       IN  /\ SetT(s.t)
           /\ io' = Io("SetSize", <<width, height>>, s.sent)
    /\ UNCHANGED <<rdVars, rawVars, pc, lock, rl, disp, typed, regVars, ringVars, oldPrompt>>

\* Clear from another task
ClearCall ==
    /\ LockFree
    /\ SetT(Clear(T))
    /\ io' = Io("Clear", <<>>, <<>>)
    /\ UNCHANGED <<rdVars, rawVars, pc, lock, rl, disp, typed, regVars, ringVars, oldPrompt>>

\* SetPrompt, called by the task that calls ReadLine, between its calls
SetPromptCall(p) ==
    /\ LockFree /\ pc = "call"
    /\ prompt' = p
    /\ io' = Io("SetPrompt", p, <<>>)
    /\ UNCHANGED <<line, pos, cursorX, cursorY, maxLine, termWidth, termHeight,
                   echo, outBuf, history, historyIndex, historyPending, ac,
                   fault, rdVars, rawVars, pc, lock, rl, disp, typed, regVars,
                   ringVars, oldPrompt>>

(***************************************************************************)
(* Raw mode, the goroutine of handleWindowSize, and Read.                  *)
(***************************************************************************)
MaxWorkers == 2      \* goroutines of handleWindowSize alive at once

Worker(st, w, h) == [st |-> st, w |-> w, h |-> h]

\* the value a send on t.cancel reaches: a goroutine waiting in its select
Selecting(ws) == { i \in 1..Len(ws) : ws[i].st = "select" }

Without(ws, i) == SubSeq(ws, 1, i - 1) \o SubSeq(ws, i + 1, Len(ws))

\* t.cancel <- true, received by the goroutine i: it returns
cancelWorker_lost(ws, i) == ws
cancelWorker(ws, i) == Without(ws, i)

\* EnableRaw: the send on the unbuffered t.cancel is made under the lock;
\* with no goroutine in its select the call stays in the send and keeps
\* the lock
EnableRawCall ==
    /\ LockFree
    /\ IF raw THEN UNCHANGED <<raw, workers, lock>>
       ELSE IF Selecting(workers) = {}
       THEN lock' = Lock("EnableRaw") /\ UNCHANGED <<raw, workers>>
       ELSE \E i \in Selecting(workers) :
               /\ workers' = cancelWorker(workers, i)
               /\ raw' = TRUE
               /\ UNCHANGED lock
    /\ io' = Io("EnableRaw", <<>>, <<>>)
    /\ UNCHANGED <<edVars, rdVars, rawOverflow, reqOpen, pty, rd, rdret, owed,
                   pc, rl, disp, typed, regVars, ringVars, oldPrompt>>

\* DisableRaw(captureOverflow)
DisableRawCall(captureOverflow) ==
    /\ LockFree
    /\ Len(workers) < MaxWorkers
    /\ IF raw
       THEN /\ rawOverflow' = IF captureOverflow
                              THEN [made |-> TRUE, buf |-> <<>>]
                              ELSE rawOverflow
            /\ raw' = FALSE
            /\ workers' = Append(workers, Worker("select", 0, 0))
            /\ rd' = [rd EXCEPT !.atDisable =
                        IF rd.st # "blocked" THEN @
                        ELSE IF captureOverflow THEN "capture" ELSE "plain"]
       ELSE UNCHANGED <<rawOverflow, raw, workers, rd>>
    /\ io' = Io("DisableRaw", <<>>, <<>>)
    /\ UNCHANGED <<edVars, rdVars, reqOpen, pty, rdret, owed, pc, lock, rl,
                   disp, typed, regVars, ringVars, oldPrompt>>

\* a goroutine of handleWindowSize takes a window-change request
WindowChange(i, width, height) ==
    /\ reqOpen
    /\ i \in Selecting(workers)
    /\ workers' = [workers EXCEPT ![i] = Worker("setsize", width, height)]
    /\ io' = Io("window-change", <<width, height>>, <<>>)
    /\ UNCHANGED <<edVars, rdVars, raw, rawOverflow, reqOpen, pty, rd, rdret,
                   owed, pc, lock, rl, disp, typed, regVars, ringVars, oldPrompt>>

\* a goroutine of handleWindowSize takes a request of another type: it
\* answers false and goes back to its select
OtherRequest(i) ==
    /\ reqOpen
    /\ i \in Selecting(workers)
    /\ io' = Io("request", <<>>, <<>>)
    /\ UNCHANGED <<edVars, rdVars, rawVars, pc, lock, rl, disp, typed, regVars, ringVars, oldPrompt>>

\* the goroutine calls SetSize, sets session.Pty and goes back to its select
WorkerSetSize(i) ==
    /\ i \in 1..Len(workers) /\ workers[i].st = "setsize"
    /\ LockFree
    /\ LET s == SetSize(T, workers[i].w, workers[i].h)
       IN  /\ SetT(s.t)
           /\ io' = Io("SetSize", <<workers[i].w, workers[i].h>>, s.sent)
    /\ pty' = [Columns |-> workers[i].w, Rows |-> workers[i].h]
    /\ workers' = [workers EXCEPT ![i] = Worker("select", 0, 0)]
    /\ UNCHANGED <<rdVars, raw, rawOverflow, reqOpen, rd, rdret, owed, pc,
                   lock, rl, disp, typed, regVars, ringVars, oldPrompt>>

\* session.ShellRequests is closed
RequestsClose ==
    /\ reqOpen
    /\ reqOpen' = FALSE
    /\ io' = Io("close", <<>>, <<>>)
    /\ UNCHANGED <<edVars, rdVars, raw, rawOverflow, workers, pty, rd, rdret,
                   owed, pc, lock, rl, disp, typed, regVars, ringVars, oldPrompt>>

\* a goroutine of handleWindowSize receives nil from the closed queue
WorkerExit(i) ==
    /\ ~reqOpen
    /\ i \in Selecting(workers)
    /\ workers' = Without(workers, i)
    /\ io' = Io("exit", <<>>, <<>>)
    /\ UNCHANGED <<edVars, rdVars, raw, rawOverflow, reqOpen, pty, rd, rdret,
                   owed, pc, lock, rl, disp, typed, regVars, ringVars, oldPrompt>>

\* Read: outside raw mode it returns (0, io.EOF), in raw mode it goes into
\* t.c.Read
RawReadCall ==
    /\ rd.st = "idle"
    /\ IF raw
       THEN /\ rd' = [st |-> "blocked", atDisable |-> ""]
            /\ UNCHANGED rdret
       ELSE /\ rdret' = [data |-> <<>>, n |-> 0, err |-> EOF]
            /\ UNCHANGED rd
    /\ io' = Io("Read", <<>>, <<>>)
    /\ UNCHANGED <<edVars, rdVars, raw, rawOverflow, workers, reqOpen, pty,
                   owed, pc, lock, rl, disp, typed, regVars, ringVars, oldPrompt>>

\* t.c.Read of Read returns data.  Read then looks at t.raw and
\* t.rawOverflow without the lock: sees says whether it sees what
\* DisableRaw assigned.  The copy goes to the overflow channel, which holds
\* one message; with the channel full Read stays in the send.
RawReadData(data, sees) ==
    /\ rd.st = "blocked"
    /\ rdret' = [data |-> data, n |-> Len(data), err |-> ""]
    /\ owed' = IF rd.atDisable # ""
               THEN [bytes |-> data, how |-> rd.atDisable] ELSE owed
    /\ IF sees /\ ~raw /\ rawOverflow.made
       THEN IF rawOverflow.buf = <<>>
            THEN /\ rawOverflow' = [rawOverflow EXCEPT !.buf = <<data>>]
                 /\ rd' = [st |-> "idle", atDisable |-> ""]
            ELSE /\ rd' = [rd EXCEPT !.st = "sending"]
                 /\ UNCHANGED rawOverflow
       ELSE /\ rd' = [st |-> "idle", atDisable |-> ""]
            /\ UNCHANGED rawOverflow
    /\ io' = Io("Read", data, <<>>)
    /\ UNCHANGED <<edVars, rdVars, raw, workers, reqOpen, pty, pc, lock, rl,
                   disp, typed, regVars, ringVars, oldPrompt>>

\* Write in raw mode
RawWriteCall(buf) ==
    /\ raw
    /\ io' = Io("RawWrite", buf, buf)
    /\ UNCHANGED <<edVars, rdVars, rawVars, pc, lock, rl, disp, typed, regVars, ringVars, oldPrompt>>

(***************************************************************************)
(* Calls on the ring of the history.                                       *)
(***************************************************************************)
MaxAdds == 102       \* calls of Add, past the capacity of the ring
MinNth == -2         \* arguments of NthPreviousEntry (an int)

\* the string of the k-th Add: each string is added twice in a row
AddValue(k) == Itoa((k + 1) \div 2)

RingAdd ==
    /\ history' = Add(history, AddValue(adds + 1))
    /\ adds' = adds + 1
    /\ nth' = NthNone
    /\ io' = Io("Add", AddValue(adds + 1), <<>>)
    /\ UNCHANGED <<line, pos, cursorX, cursorY, maxLine, termWidth, termHeight,
                   prompt, echo, outBuf, historyIndex, historyPending, ac,
                   fault, rdVars, rawVars, pc, lock, rl, disp, typed, regVars,
                   oldPrompt>>

RingNthPreviousEntry(n) ==
    /\ LET r == NthPreviousEntry(history, n)
       IN  nth' = [called |-> TRUE, n |-> n, value |-> r.value, ok |-> r.ok,
                   panic |-> r.panic]
    /\ io' = Io("NthPreviousEntry", <<>>, <<>>)
    /\ UNCHANGED <<edVars, adds, rdVars, rawVars, pc, lock, rl, disp, typed,
                   regVars, oldPrompt>>

InitRegistry ==
    /\ users = EmptyMap
    /\ activeConnections = {}
    /\ allClients = EmptyMap
    /\ aliases = EmptyMap
    /\ uniqueIdToAllAliases = EmptyMap
    /\ ret = RetNone
    /\ attached = {}

Init == InitRegistry /\ InitTerminal

\* Spec: the registry as the SSH server drives it.  An operator attaches
\* under the connection's own user name and is disconnected once, when its
\* connection ends; owners are looked up without a connection.
Next ==
    \/ \E c \in Conn : CreateOrGetUser(c.user, c)
    \/ \E username \in Usernames : CreateOrGetUser(username, NilConn)
    \/ \E c \in attached \cup {NilConn} : DisconnectUserCall(c)
    \/ \E owners \in SUBSET Usernames :
          AssociateClientCall(<<"c", "1">>, <<"h", "1">>, owners, {})
    \/ DisassociateClientCall(<<"c", "1">>)

Spec == Init /\ [][Next]_vars

\* SpecReject: the registry as a server drives it that also calls
\* DisconnectUser for a connection whose attach has just been rejected
Rejected(c) ==
    /\ ret.op = "CreateOrGetUser" /\ ret.err # "" /\ ret.conn = c
    /\ c \notin attached

NextReject ==
    \/ \E c \in Conn : CreateOrGetUser(c.user, c)
    \/ \E c \in attached : DisconnectUserCall(c)
    \/ \E c \in Conn : Rejected(c) /\ DisconnectUserCall(c)
    \/ \E owners \in SUBSET Usernames :
          AssociateClientCall(<<"c", "1">>, <<"h", "1">>, owners, {})
    \/ DisassociateClientCall(<<"c", "1">>)

SpecReject == Init /\ [][NextReject]_vars

\* SpecApi: every call the exported functions accept: any username beside
\* any connection, DisconnectUser of any connection, attached or not
ConnApi == { c \in Conn : c.priv = <<"5">> }

NextApi ==
    \/ \E username \in Usernames, c \in ConnApi \cup {NilConn} :
          CreateOrGetUser(username, c)
    \/ \E c \in ConnApi \cup {NilConn} : DisconnectUserCall(c)
    \/ \E owners \in SUBSET Usernames :
          AssociateClientCall(<<"c", "1">>, <<"h", "1">>, owners, {})
    \/ DisassociateClientCall(<<"c", "1">>)

SpecApi == Init /\ [][NextApi]_vars

\* SpecLookup: the lookups, for operators attached under their own name:
\* alice as admin, bob with a privilege extension that does not parse
LookupConns ==
    { c \in Conn : /\ c.addr = "10.0.0.1:22"
                   /\ c.priv = IF c.user = "alice" THEN <<"5">> ELSE <<"x">> }

NextLookup ==
    \/ \E c \in LookupConns : CreateOrGetUser(c.user, c)
    \/ \E username \in Usernames, identifier \in Identifiers :
          GetClientCall(username, identifier)
    \/ \E username \in Usernames, filter \in Filters :
          SearchClientsCall(username, filter)
    \/ \E id \in ClientIds, owners \in SUBSET Usernames,
          als \in SUBSET AliasNames :
          AssociateClientCall(id, ClientAddrOf(id), owners, als)
    \/ \E id \in ClientIds : DisassociateClientCall(id)

SpecLookup == Init /\ [][NextLookup]_vars

\* the reads of SpecTerm: the keys l, x, Enter, Ctrl-D, Ctrl-B (left), the
\* paste brackets, and two keys in one read
Chunks ==
    {<<108>>, <<keyEnter>>, <<keyCtrlD>>, <<2>>, pasteStart, pasteEnd,
     <<108, keyEnter>>}

\* SpecTerm: Run over the editor, reading keys from the channel
\* what a read brings in, as far as the line can grow by it
Growth(data) == IF data[1] = keyEscape THEN 1 ELSE Len(data)

\* the reads the bounds admit
Fits(data) ==
    /\ Len(remainder) + Len(data) <= MaxInBuf
    /\ Len(line) + Len(remainder) + Growth(data) <= MaxLineLen
    /\ (\E i \in 1..Len(data) : data[i] = keyEnter) => history.size < MaxHistory

NextTerm ==
    \/ readLine
    \/ readLineKey
    \/ autoCompleteReturn
    \/ \E data \in Chunks : Fits(data) /\ channelRead(data)
    \/ channelReadError(EOF)
    \/ Run

SpecTerm == Init /\ [][NextTerm]_vars

\* SpecEdit: the editor under a caller that calls ReadLine again after
\* every return; a failed read may be followed by reads that succeed
EditChunks == {<<108>>, <<keyEnter>>, <<2>>, pasteStart, pasteEnd}

NextEdit ==
    \/ readLine
    \/ readLineKey
    \/ autoCompleteReturn
    \/ \E data \in EditChunks : Fits(data) /\ channelRead(data)
    \/ channelReadError(ErrRead)
    \/ CallAgain

SpecEdit == Init /\ [][NextEdit]_vars

\* SpecScreen: the editor beside tasks that call Write, SetSize and Clear,
\* for a terminal made with any prompt of Prompts; Clear is called with
\* nothing pending in outBuf
ScreenChunks == {<<108>>, <<keyEnter>>, <<2>>, <<keyCtrlC>>}
WriteData == {<<119, 10>>}
Widths == {0, 2, 80}
Heights == {24}

InitScreen == InitRegistry /\ \E p \in Prompts : NewAdvancedTerminal(p)

NextScreen ==
    \/ readLine
    \/ readLineKey
    \/ autoCompleteReturn
    \/ \E data \in ScreenChunks : Fits(data) /\ channelRead(data)
    \/ CallAgain
    \/ \E buf \in WriteData : WriteCall(buf)
    \/ \E width \in Widths, height \in Heights : SetSizeCall(width, height)
    \/ outBuf = <<>> /\ ClearCall

SpecScreen == InitScreen /\ [][NextScreen]_vars

\* SpecRaw: raw mode, window-change requests and Read, beside a caller of
\* ReadLine that does not call it in raw mode
RawChunks == {<<keyEnter>>}
RawData == {<<120>>}
RawWidths == {2}

NextRaw ==
    \/ EnableRawCall
    \/ \E captureOverflow \in BOOLEAN : DisableRawCall(captureOverflow)
    \/ \E i \in 1..Len(workers), width \in RawWidths, height \in Heights :
          WindowChange(i, width, height)
    \/ \E i \in 1..Len(workers) : OtherRequest(i)
    \/ \E i \in 1..Len(workers) : WorkerSetSize(i)
    \/ RequestsClose
    \/ \E i \in 1..Len(workers) : WorkerExit(i)
    \/ RawReadCall
    \/ \E data \in RawData, sees \in BOOLEAN : RawReadData(data, sees)
    \/ \E buf \in WriteData : RawWriteCall(buf)
    \/ ~raw /\ readLine
    \/ readLineOverflow
    \/ readLineKey
    \/ autoCompleteReturn
    \/ \E data \in RawChunks : Fits(data) /\ channelRead(data)
    \/ CallAgain

SpecRaw == Init /\ [][NextRaw]_vars

\* SpecRawLive: raw mode, the requests and Read with no ReadLine under way,
\* under the scheduler of the run time: a goroutine of handleWindowSize
\* that can take its next step takes it in the end; the callers and the
\* peer are not obliged to act
NextRawLive ==
    \/ EnableRawCall
    \/ \E captureOverflow \in BOOLEAN : DisableRawCall(captureOverflow)
    \/ \E i \in 1..Len(workers), width \in RawWidths, height \in Heights :
          WindowChange(i, width, height)
    \/ \E i \in 1..Len(workers) : OtherRequest(i)
    \/ \E i \in 1..Len(workers) : WorkerSetSize(i)
    \/ RequestsClose
    \/ \E i \in 1..Len(workers) : WorkerExit(i)
    \/ RawReadCall
    \/ \E data \in RawData, sees \in BOOLEAN : RawReadData(data, sees)
    \/ \E buf \in WriteData : RawWriteCall(buf)

RawFairness ==
    \A i \in 1..MaxWorkers :
        WF_vars(WorkerSetSize(i)) /\ WF_vars(WorkerExit(i))

SpecRawLive == Init /\ [][NextRawLive]_vars /\ RawFairness

\* SpecOverflowLive: raw mode, Read and a caller of ReadLine, under the
\* scheduler of the run time: ReadLine takes the steps it can take, and a
\* Read that waits for the channel gets bytes in the end
NextOverflowLive ==
    \/ EnableRawCall
    \/ \E captureOverflow \in BOOLEAN : DisableRawCall(captureOverflow)
    \/ RawReadCall
    \/ \E data \in RawData, sees \in BOOLEAN : RawReadData(data, sees)
    \/ ~raw /\ readLine
    \/ readLineOverflow
    \/ readLineKey
    \/ autoCompleteReturn
    \/ \E data \in RawChunks : Fits(data) /\ channelRead(data)
    \/ CallAgain

OverflowFairness ==
    /\ WF_vars(readLineOverflow)
    /\ WF_vars(readLineKey)
    /\ WF_vars(autoCompleteReturn)
    /\ WF_vars(\E data \in RawData, sees \in BOOLEAN : RawReadData(data, sees))

SpecOverflowLive == Init /\ [][NextOverflowLive]_vars /\ OverflowFairness

\* SpecRing: Add and NthPreviousEntry on the ring of a new terminal
NextRing ==
    \/ adds < MaxAdds /\ RingAdd
    \/ \E n \in MinNth..(MaxAdds + 1) : RingNthPreviousEntry(n)

SpecRing == Init /\ [][NextRing]_vars

\* SpecLong: the editor in a ReadLine in which maxLineLength - 1 letters have
\* been typed, each read and handled on its own, and the read is waiting
MaxOver == 2         \* growth of the line past maxLineLength
MaxBack == 2         \* distance of pos from the end of the line

LongLine == [i \in 1..(maxLineLength - 1) |-> 108]

InitLong ==
    /\ InitRegistry
    /\ line = LongLine /\ pos = Len(LongLine)
    /\ termWidth = 80 /\ termHeight = 24 /\ prompt = <<62>> /\ echo = TRUE
    /\ cursorX = (Len(prompt) + pos) % termWidth
    /\ cursorY = (Len(prompt) + pos) \div termWidth
    /\ maxLine = cursorY
    /\ outBuf = <<>> /\ history = EmptyRing /\ historyIndex = 0 - 1
    /\ historyPending = <<>> /\ ac = AcNone /\ fault = FALSE
    /\ pasteActive = FALSE /\ remainder = <<>> /\ rest = <<>>
    /\ lineIsPasted = FALSE /\ lastKey = RuneError
    /\ raw = FALSE /\ rawOverflow = NoOverflow
    /\ workers = <<[st |-> "select", w |-> 0, h |-> 0]>>
    /\ reqOpen = TRUE /\ pty = [Columns |-> 80, Rows |-> 24]
    /\ rd = [st |-> "idle", atDisable |-> ""] /\ rdret = RdNone
    /\ owed = OwedNone
    /\ adds = 0 /\ nth = NthNone /\ oldPrompt = <<>>
    /\ pc = "read" /\ lock = "" /\ rl = RlNone /\ disp = DispNone
    /\ io = Io("ReadLine", <<>>, <<108>>) /\ typed = TRUE

LongChunks == {<<108>>, <<keyBackspace>>, <<keyEscape, 91, 68>>, pasteStart,
               pasteEnd}

\* the reads the bounds admit
LongFits(data) ==
    /\ data = <<108>> => Len(line) < maxLineLength + MaxOver
    /\ data = pasteStart => ~pasteActive
    /\ data = <<keyBackspace>> => (~pasteActive /\ Len(line) >= maxLineLength)
    /\ data = <<keyEscape, 91, 68>> =>
          (~pasteActive /\ pos > Len(line) - MaxBack)

NextLong ==
    \/ readLineKey
    \/ autoCompleteReturn
    \/ \E data \in LongChunks : LongFits(data) /\ channelRead(data)

SpecLong == InitLong /\ [][NextLong]_vars

\* SpecKeys: the editor under every key of the decoder, one key a read,
\* beside a task that narrows the window so that lines wrap
KeyChunks ==
    {<<108>>, <<keyEnter>>, <<keyCtrlC>>, <<keyCtrlD>>, <<keyCtrlU>>,
     <<keyBackspace>>, <<1>>, <<2>>, <<5>>, <<6>>, <<8>>, <<11>>, <<12>>,
     <<14>>, <<16>>, <<23>>,
     <<keyEscape, 91, 65>>, <<keyEscape, 91, 66>>, <<keyEscape, 91, 67>>,
     <<keyEscape, 91, 68>>, <<keyEscape, 91, 72>>, <<keyEscape, 91, 70>>,
     <<keyEscape, 91, 51, 126>>,
     <<keyEscape, 91, 49, 59, 51, 67>>, <<keyEscape, 91, 49, 59, 51, 68>>,
     <<keyEscape, 91, 90>>, pasteStart, pasteEnd}

\* what is read during a paste
PastedChunks == {<<108>>, <<keyEnter>>, pasteEnd}

KeyWidths == {2}

NextKeys ==
    \/ readLine
    \/ readLineKey
    \/ autoCompleteReturn
    \/ \E data \in KeyChunks :
          /\ pasteActive => data \in PastedChunks
          /\ Fits(data)
          /\ channelRead(data)
    \/ CallAgain
    \/ \E width \in KeyWidths, height \in Heights : SetSizeCall(width, height)

SpecKeys == Init /\ [][NextKeys]_vars

\* SpecSize: a line of up to MaxSizeLine letters typed at the prompt ">" or
\* at the empty prompt, beside a task that sets the size of the window
\* (the width 0 while the line is short)
MaxSizeLine == 50    \* letters of the line

SizeChunks == {<<108>>, <<keyEscape, 91, 68>>}

SizeFits(data) ==
    /\ remainder = <<>>
    /\ data = <<108>> =>
         Len(line) < (IF termWidth = 1 THEN MaxLineLen ELSE MaxSizeLine)
    /\ data # <<108>> => (pos > 0 /\ Len(line) - pos < MaxBack)

SizeWidths == {0, 40, 80}

SizePrompts == {<<>>, <<62>>}

NextSize ==
    \/ \E p \in SizePrompts : SetPromptCall(p)
    \/ readLine
    \/ readLineKey
    \/ autoCompleteReturn
    \/ \E data \in SizeChunks : SizeFits(data) /\ channelRead(data)
    \/ \E width \in SizeWidths, height \in Heights :
          /\ width = 0 => Len(line) <= MaxLineLen
          /\ SetSizeCall(width, height)

SpecSize == Init /\ [][NextSize]_vars

\* SpecPaste: letters and an escape sequence the decoder does not know,
\* typed and pasted, under a caller that calls ReadLine again
PasteChunks == {<<108>>, <<keyEscape, 91, 90>>, <<keyEnter>>, pasteStart,
                pasteEnd}

NextPaste ==
    \/ readLine
    \/ readLineKey
    \/ autoCompleteReturn
    \/ \E data \in PasteChunks : Fits(data) /\ channelRead(data)
    \/ CallAgain

SpecPaste == Init /\ [][NextPaste]_vars

\* SpecSplit: the encodings of keys arrive whole or cut into pieces, each
\* piece in a read of its own
KeyEncodings ==
    {<<keyEscape, 91, 65>>, <<keyEscape, 91, 51, 126>>,
     <<keyEscape, 91, 49, 59, 51, 67>>, pasteStart, pasteEnd, <<195, 169>>}

\* the pieces: every run of bytes of an encoding
SplitChunks ==
    UNION { { SubSeq(e, i, j) : i \in 1..Len(e), j \in 1..Len(e) } \ {<<>>} :
            e \in KeyEncodings }

isPrefixOf(b, e) == Len(b) <= Len(e) /\ SubSeq(e, 1, Len(b)) = b

\* the bytes at hand after the read of data begin an encoding
SplitFits(data) ==
    /\ Len(line) < MaxLineLen
    /\ \E e \in KeyEncodings : isPrefixOf(remainder \o data, e)

NextSplit ==
    \/ readLine
    \/ readLineKey
    \/ autoCompleteReturn
    \/ \E data \in SplitChunks : SplitFits(data) /\ channelRead(data)

SpecSplit == Init /\ [][NextSplit]_vars

\* SpecPassword: ReadPassword and ReadLine called in turn, beside tasks that
\* call Write, SetSize and Clear; a call ends with Enter or, with the error
\* ErrCtrlD, with Ctrl-D on the empty line
PasswordPrompts == {<<35>>}

PasswordChunks == {<<108>>, <<keyEnter>>, <<keyCtrlD>>}

PasswordWidths == {2, 80}

NextPassword ==
    \/ \E p \in PasswordPrompts : ReadPasswordCall(p)
    \/ ReadPasswordReturn
    \/ readLine
    \/ readLineKey
    \/ autoCompleteReturn
    \/ \E data \in PasswordChunks : Fits(data) /\ channelRead(data)
    \/ echo /\ CallAgain
    \/ \E buf \in WriteData : WriteCall(buf)
    \/ \E width \in PasswordWidths, height \in Heights :
          SetSizeCall(width, height)
    \/ outBuf = <<>> /\ ClearCall

SpecPassword == Init /\ [][NextPassword]_vars

\* SpecOrder: reads of one key and of several keys, under a caller that
\* calls ReadLine again after every return, the error ErrCtrlD included
OrderChunks ==
    {<<108>>, <<keyEnter>>, <<keyCtrlD>>, <<keyEnter, 108>>, <<2, keyCtrlD>>,
     <<108, keyEnter, keyCtrlD>>}

NextOrder ==
    \/ readLine
    \/ readLineKey
    \/ autoCompleteReturn
    \/ \E data \in OrderChunks : Fits(data) /\ channelRead(data)
    \/ CallAgain

SpecOrder == Init /\ [][NextOrder]_vars

\* SpecHist: lines of letters and white space, typed and pasted, committed
\* under a caller that calls ReadLine again
HistChunks == {<<108>>, <<32>>, <<9>>, <<keyEnter>>, pasteStart, pasteEnd}

NextHist ==
    \/ readLine
    \/ readLineKey
    \/ \E data \in HistChunks :
          /\ data = <<9>> => pasteActive
          /\ Fits(data)
          /\ channelRead(data)
    \/ CallAgain

SpecHist == Init /\ [][NextHist]_vars

\* SpecTab: the editor with the commands help, hello and exit under Tab
\* and other keys; "hel" arrives in one read
MaxTabLine == 6      \* length of the line before a read that can grow it

TabChunks ==
    {<<104, 101, 108>>, <<9>>, <<120>>, <<keyCtrlC>>, <<2>>,
     <<keyEscape, 91, 90>>, pasteStart, pasteEnd}

\* the reads the bounds admit
TabFits(data) ==
    /\ pasteActive => data \in {<<120>>, pasteEnd}
    /\ data = <<120>> => pasteActive
    /\ data \in {<<104, 101, 108>>, <<9>>, <<120>>}
          => Len(line) + Len(data) <= MaxTabLine

NextTab ==
    \/ readLine
    \/ readLineKey
    \/ autoCompleteReturn
    \/ \E data \in TabChunks : TabFits(data) /\ channelRead(data)

SpecTab == Init /\ [][NextTab]_vars

\* SpecDispatch: Run over lines drawn from a bounded set, to cover commands
\* and flags of every kind
CmdTokens == {<<108>>, <<113>>, <<120>>}
FlagTokens ==
    {<<45, 104>>, <<45, 45, 104, 101, 108, 112>>, <<45, 118>>,
     <<45, 118, 61, 120>>, <<45, 122>>, <<45, 121>>}

RECURSIVE Join(_)
Join(toks) ==
    IF toks = <<>> THEN <<>>
    ELSE IF Len(toks) = 1 THEN toks[1]
    ELSE toks[1] \o <<32>> \o Join(Tail(toks))

DispatchLines ==
    {<<>>, <<32>>} \cup
    { Join(<<c>> \o fs) :
        c \in CmdTokens,
        fs \in UNION { [1..n -> FlagTokens] : n \in 0..MaxFlags } }

\* ReadLine returns the line l
ReadLineReturns(l) ==
    /\ pc = "call"
    /\ rl' = [line |-> l, err |-> ""]
    /\ pc' = "ret"
    /\ disp' = DispNone
    /\ io' = Io("ReadLine", <<>>, <<>>)
    /\ UNCHANGED <<edVars, rdVars, rawVars, lock, typed, regVars, ringVars, oldPrompt>>

NextDispatch ==
    \/ \E l \in DispatchLines : ReadLineReturns(l)
    \/ Run

SpecDispatch == Init /\ [][NextDispatch]_vars

(***************************************************************************)
(* Claims about the registry.                                              *)
(***************************************************************************)

\* the label of the connection of the last call
retDetails == makeConnectionDetailsString(ret.conn)

(* C1: a username is in the username map exactly while the user owns a
   controllee or has an operator session attached; in particular
   DisconnectUser takes a record out of the map only when no other operator
   session of that user is still attached.  Stated on every step that
   disconnects an attached session: a record that leaves the map had no
   session besides the one disconnected. *)
C1_RecordKeptWhileSessionAttached ==
    [][(/\ ret'.op = "DisconnectUser"
        /\ \E n \in DOMAIN users :
              makeConnectionDetailsString(ret'.conn)
                  \in DOMAIN users[n].userConnections) =>
         \A n \in DOMAIN users \ DOMAIN users' :
             DOMAIN users[n].userConnections
                 \ {makeConnectionDetailsString(ret'.conn)} = {}]_vars

(* C3: for every user of the username map, every label of its session map
   is in the global liveness set. *)
C3_SessionLabelsAreLive ==
    \A n \in DOMAIN users :
        DOMAIN users[n].userConnections \subseteq activeConnections

(* C4: after DisconnectUser(c) with c non-nil, the label of c is in neither
   its user's session map nor the liveness set, c is closed, and the user's
   record is out of the map exactly when the user owns no controllee. *)
C4_DisconnectUserPost ==
    (ret.op = "DisconnectUser" /\ ~ret.conn.nil) =>
        /\ retDetails \notin activeConnections
        /\ \A n \in DOMAIN users :
               retDetails \notin DOMAIN users[n].userConnections
        /\ ret.closed
        /\ ret.conn.user \in DOMAIN users =>
               users[ret.conn.user].clients # {}

(* C6: after CreateOrGetUser(username, c) with a privilege extension that
   does not parse, the user's Privilege() is 0; and the user is admin after
   the call only if the extension of c parsed to 5.  Stated for the calls
   that attach c (no error returned). *)
C6_UnparsedPrivilegeReadsZero ==
    (ret.op = "CreateOrGetUser" /\ ~ret.conn.nil /\ ret.err = "") =>
        LET p == Privilege(users[ret.username])
            a == Atoi(ret.conn.priv)
        IN  /\ ~a.ok => p = 0
            /\ p = AdminPermissions => (a.ok /\ a.val = AdminPermissions)

(* C5: session labels are unique within a user.  CreateOrGetUser(username, c)
   with c non-nil and the label of c already a key of that user's session
   map returns an error with no user and an empty label and leaves that
   user's session map as it was; with a new label it succeeds, returns the
   user and the label, and adds exactly the session of c under the label. *)
C5_SessionLabelsUnique ==
    [][(ret'.op = "CreateOrGetUser" /\ ~ret'.conn.nil) =>
         LET n == ret'.username
             d == makeConnectionDetailsString(ret'.conn)
             old == IF n \in DOMAIN users THEN users[n].userConnections
                    ELSE EmptyMap
             new == users'[n].userConnections
         IN  /\ n \in DOMAIN users'
             /\ IF d \in DOMAIN old
                THEN /\ ret'.err # "" /\ ret'.us = <<>> /\ ret'.details = ""
                     /\ new = old
                ELSE /\ ret'.err = "" /\ ret'.us = <<n>> /\ ret'.details = d
                     /\ DOMAIN new = DOMAIN old \cup {d}
                     /\ new[d].serverConnection = ret'.conn
                     /\ \A k \in DOMAIN old : new[k] = old[k]]_vars

\* a second connection with a live label was rejected, the first one is kept
C5_Witness ==
    /\ ret.op = "CreateOrGetUser" /\ ~ret.conn.nil /\ ret.err # ""
    /\ ret.username \in DOMAIN users
    /\ retDetails \in DOMAIN users[ret.username].userConnections
    /\ users[ret.username].userConnections[retDetails].serverConnection # ret.conn

(* C2: every controllee that GetClient or SearchClients returns to a user
   whose privilege is not 5 is one of that user's own controllees, whether
   it was addressed by id, by alias or by glob. *)
C2_NonAdminSeesOwnOnly ==
    (/\ ret.op \in {"GetClient", "SearchClients"}
     /\ Privilege(users[ret.username]) # AdminPermissions) =>
        ret.out \subseteq users[ret.username].clients

\* what an alias resolves to for user u: pruned to u's own unless u is admin
resolved(u, identifier) ==
    IF Privilege(u) = AdminPermissions THEN aliases[identifier]
    ELSE aliases[identifier] \cap u.clients

(* C7: GetClient(identifier) returns one controllee and no error, or no
   controllee and an error, never both and never neither: the controllee
   when the identifier is a controllee id, or an alias that resolves (pruned
   to the caller's own for a non-admin) to exactly one controllee; a
   not-found error when the identifier is neither id nor alias; an error
   listing the candidates when the alias resolves to none or to several. *)
C7_GetClientOneOrError ==
    [][ret'.op = "GetClient" =>
         LET identifier == ret'.arg
             u == users[ret'.username]
         IN  /\ (ret'.us # <<>>) # (ret'.err # "")
             /\ Len(ret'.us) <= 1
             /\ IF identifier \in DOMAIN allClients
                THEN ret'.us = <<identifier>>
                ELSE IF identifier \notin DOMAIN aliases
                THEN ret'.err = "not found"
                ELSE IF Cardinality(resolved(u, identifier)) = 1
                THEN resolved(u, identifier) = {ret'.us[1]}
                ELSE /\ ret'.err = "connections match alias"
                     /\ ret'.out = resolved(u, identifier)]_vars

\* an alias of two controllees was looked up: error naming both
C7_Witness ==
    /\ ret.op = "GetClient" /\ ret.err = "connections match alias"
    /\ ret.us = <<>> /\ Cardinality(ret.out) = 2

(***************************************************************************)
(* Claims about the dispatcher and the editor.                             *)
(***************************************************************************)

(* C8: Run returns only when ReadLine reports the end of input or a command
   handler returns the end of input; any other outcome of ReadLine, a line
   delivered with the paste indicator included, and any other error of a
   handler leave the loop running. *)
C8_RunExitsOnlyOnEndOfInput ==
    pc = "done" => (rl.err \in {ErrCtrlD, EOF} \/ disp.herr = EOF)

(* C9: for every line Run reads, the handler runs exactly when the line has
   a registered command, neither flag h nor flag help, and only flags of the
   command's ValidArgs(); an unknown command, a help flag or an unknown flag
   prints a message, runs no handler and keeps the loop going; help comes
   before the report of unknown flags, and the unknown flags are reported
   in one message, without duplicates and sorted. *)
C9_HandlerRunsIffLineValid ==
    disp.op = "Run" =>
        LET hasCmd == disp.cmd # <<>>
            registered == hasCmd /\ disp.cmd[1] \in DOMAIN functions
            help == flag_h \in disp.flags \/ flag_help \in disp.flags
            valid == IF registered THEN functions[disp.cmd[1]] ELSE {}
            unknown == disp.flags \ (valid \cup {flag_h, flag_help})
        IN  /\ disp.invoked <=>
                  (registered /\ ~help /\ disp.flags \subseteq valid)
            /\ (hasCmd /\ ~disp.invoked) =>
                  (disp.printed # <<>> /\ pc = "call")
            /\ (hasCmd /\ ~registered) =>
                  disp.printed = <<Msg("Unknown command", disp.cmd[1], <<>>)>>
            /\ (registered /\ help) =>
                  disp.printed = <<Msg("Help", disp.cmd[1], <<>>)>>
            /\ (registered /\ ~help /\ unknown # {}) =>
                  /\ Len(disp.printed) = 2
                  /\ disp.printed[1].kind = "invalid flag"
                  /\ disp.printed[2] = Msg("Help", disp.cmd[1], <<>>)
                  /\ LET fl == disp.printed[1].flags
                     IN  /\ { fl[i] : i \in 1..Len(fl) } = unknown
                         /\ \A i \in 1..(Len(fl) - 1) : StrLess(fl[i], fl[i + 1])

\* two unknown flags on a registered command: one report, no handler
C9_Witness ==
    /\ disp.op = "Run" /\ ~disp.invoked /\ pc = "call"
    /\ Len(disp.printed) = 2
    /\ Len(disp.printed[1].flags) = 2

(* C10: outside a paste, Ctrl-D on an empty line makes ReadLine return the
   empty line with ErrCtrlD; Ctrl-D on a non-empty line removes the code
   point at the cursor (none when the cursor is at the end of the line),
   keeps the cursor and does not make ReadLine return. *)
C10_CtrlD ==
    [][(/\ pc = "keys" /\ ~pasteActive
        /\ bytesToKey(rest, pasteActive).key = keyCtrlD) =>
         IF line = <<>>
         THEN /\ pc' = "ret"
              /\ rl' = [line |-> <<>>, err |-> ErrCtrlD]
              /\ line' = <<>>
         ELSE /\ line' = IF pos < Len(line)
                         THEN SubSeq(line, 1, pos) \o From(line, pos + 1)
                         ELSE line
              /\ pos' = pos
              /\ pc' = "keys"
              /\ rl' = rl]_vars

\* Ctrl-D at the start of a two-letter line took the first letter away
C10_Witness ==
    /\ lastKey = keyCtrlD /\ pc = "keys" /\ ~pasteActive
    /\ line = <<108>> /\ pos = 0

(***************************************************************************)
(* Claims about the editor's screen, locking, raw mode and history.        *)
(***************************************************************************)

(* C11: ReadLine returns a committed line with the paste marker exactly
   when every key that went into that line, the terminating Enter
   included, was handled inside a paste; also for a line whose editing
   began in a ReadLine call that ended with a read error.  typed says that
   a key of the line was handled outside a paste. *)
C11_PasteMarkerIffAllPasted ==
    (pc = "ret" /\ rl.err \in {"", ErrPasteIndicator}) =>
        (rl.err = ErrPasteIndicator <=> ~typed)

\* what the results of ReadLine are computed from
ReadState(t) ==
    <<t.line, t.pos, t.prompt, t.echo, t.history, t.historyIndex,
      t.historyPending, t.ac, t.fault>>

\* t with the screen fields a Write may have left
ScreenVariants(t) ==
    { [t EXCEPT !.cursorX = cx, !.cursorY = cy, !.outBuf = ob] :
        cx \in {0, t.cursorX, t.termWidth - 1}, cy \in {0, t.cursorY},
        ob \in {<<>>, t.outBuf} }

keyResultOf(h) == <<ReadState(h.t), h.line, h.ok, h.callback>>
keyResult(t, paste, key) == keyResultOf(handleKey(t, paste, key))

\* the places of sent where the bytes d stand
Occurrences(bytes, d) ==
    { i \in 1..(Len(bytes) - Len(d) + 1) : SubSeq(bytes, i, i + Len(d) - 1) = d }

(* C12: Write calls interleaved with the keys of ReadLine do not change
   what ReadLine returns, and the bytes given to Write reach the channel
   once and in order.  A Write step leaves everything the results of
   ReadLine are computed from as it was and sends its bytes (a line feed as
   CR LF) exactly once; and what a key does to that state does not depend
   on the screen fields, the only ones a Write changes. *)
C12_WriteKeepsReadLine ==
    /\ [][io'.op = "Write" =>
            /\ ReadState(T)' = ReadState(T)
            /\ UNCHANGED <<rdVars, pc, lock, rl, typed>>
            /\ Cardinality(Occurrences(io'.sent, writeWithCRLF(io'.arg))) = 1]_vars
    /\ [](pc = "keys" =>
            \A u \in ScreenVariants(T) :
                keyResult(u, pasteActive, bytesToKey(rest, pasteActive).key)
                    = keyResult(T, pasteActive, bytesToKey(rest, pasteActive).key))
    /\ [](pc = "complete" =>
            \A u \in ScreenVariants(T) :
                ReadState(handleKeyAfterCallback(u, lastKey))
                    = ReadState(handleKeyAfterCallback(T, lastKey)))

\* a Write came in while ReadLine waited for bytes with two letters on a
\* wrapped line
C12_Witness ==
    /\ io.op = "Write" /\ pc = "read" /\ Len(line) = 2 /\ cursorY > 0

(* C13: while ReadLine waits for bytes of the channel, and while it is in
   the autocomplete callback, the editor lock is free, so that a Write and
   a SetSize of another task can run to their end with no further input;
   at every other point of the read loop ReadLine holds the lock. *)
C13_LockFreeWhileBlocked ==
    /\ pc \in {"read", "complete"} =>
          /\ LockFree
          /\ \A buf \in WriteData : ~Write(T, buf).t.fault
          /\ \A width \in Widths, height \in Heights :
                ~SetSize(T, width, height).t.fault
    /\ pc \in {"keys", "overflow"} => lock = "ReadLine"

\* a Write ran to its end while ReadLine was in the autocomplete callback
C13_Witness ==
    /\ pc = "complete" /\ lock = "" /\ io.op = "Write" /\ lastKey = 108

\* the bytes of a repaint that show on the screen: no CR, no LF and no
\* escape sequence
RECURSIVE visibleFrom(_, _)
visibleFrom(bytes, inEscapeSeq) ==
    IF bytes = <<>> THEN <<>>
    ELSE LET b == Head(bytes)
         IN  IF inEscapeSeq THEN visibleFrom(Tail(bytes), ~isAlpha(b))
             ELSE IF b = keyEscape THEN visibleFrom(Tail(bytes), TRUE)
             ELSE IF b \in {13, 10} THEN visibleFrom(Tail(bytes), FALSE)
             ELSE <<b>> \o visibleFrom(Tail(bytes), FALSE)

\* what was sent after the first place where the bytes d stand
sentAfter(bytes, d) ==
    LET at == Occurrences(bytes, d)
    IN  IF at = {} THEN <<>>
        ELSE From(bytes, (CHOOSE i \in at : \A j \in at : i <= j) + Len(d) - 1)

\* the cursor stands where pos is after the prompt
cursorAtPos ==
    /\ cursorX = (visualLength(prompt) + pos) % termWidth
    /\ cursorY = (visualLength(prompt) + pos) \div termWidth

\* a Write step keeps the line, pos, the prompt, the history, the paste
\* state and the autocomplete state
WriteFrame ==
    /\ line' = line /\ pos' = pos /\ prompt' = prompt
    /\ history' = history /\ historyIndex' = historyIndex
    /\ historyPending' = historyPending
    /\ pasteActive' = pasteActive /\ lineIsPasted' = lineIsPasted
    /\ remainder' = remainder /\ ac' = ac

\* after the written data the prompt and the line are repainted, the
\* cursor is at pos and nothing is left in outBuf
WriteRepaints ==
    /\ cursorAtPos'
    /\ outBuf' = <<>>
    /\ visibleFrom(sentAfter(io'.sent, writeWithCRLF(io'.arg)), FALSE)
          = bytesOf(prompt \o line)

(* C14: a Write outside raw mode keeps the line, pos, the prompt, the
   history, the paste state and the autocomplete state, and when it
   returns the tracked cursor is at pos after the prompt, the prompt and
   the line are repainted after the written data and outBuf is empty. *)
C14_WriteRepaintsAlways ==
    [][io'.op = "Write" => (WriteFrame /\ WriteRepaints)]_vars

(* C14, amended: the frame holds for every Write; the repaint, the cursor
   at pos and the empty outBuf hold for a Write that finds the tracked
   cursor away from (0,0).  A Write that finds it at (0,0) sends the
   written data and nothing else and leaves the whole editor as it was. *)
C14_WriteRepaintsWhatIsOnScreen ==
    [][io'.op = "Write" =>
          /\ WriteFrame
          /\ (cursorX # 0 \/ cursorY # 0) => WriteRepaints
          /\ (cursorX = 0 /\ cursorY = 0) =>
                /\ UNCHANGED edVars
                /\ io'.sent = writeWithCRLF(io'.arg)]_vars

\* a Write repainted a line of three letters with the cursor moved back
C14_Witness ==
    /\ io.op = "Write" /\ Len(line) = 3 /\ pos = 1 /\ cursorY > 0
    /\ Len(io.sent) > Len(writeWithCRLF(io.arg))

\* some goroutine of handleWindowSize takes a window-change request, or
\* applies one, in this step
ConsumesWindowChange ==
    \E i \in 1..Len(workers) :
        /\ i <= Len(workers')
        /\ \/ workers[i].st = "select" /\ workers'[i].st = "setsize"
           \/ workers[i].st = "setsize" /\ workers'[i].st = "select"

\* C15: the number of live goroutines of handleWindowSize is 0 whenever the
\* terminal is in raw mode and at most 1 otherwise; a goroutine ends only
\* when the request queue is closed or in the step in which EnableRaw turns
\* raw mode on; and no window-change request is taken or applied while the
\* terminal is in raw mode.
C15_WorkersBound ==
    /\ [](raw => Len(workers) = 0)
    /\ [](Len(workers) <= 1)
    /\ [][Len(workers') < Len(workers) => (~reqOpen \/ (~raw /\ raw'))]_vars
    /\ [][ConsumesWindowChange => (~raw /\ ~raw')]_vars

\* raw mode entered after a window-change request has been applied
C15_Witness ==
    raw /\ workers = <<>> /\ pty.Columns = 2 /\ reqOpen /\ io.op = "EnableRaw"

\* C16: the bytes obtained by a Read that was blocked in the channel when
\* DisableRaw(true) was called are the input the next ReadLine starts on;
\* a ReadLine replays nothing else, in particular nothing after
\* DisableRaw(false); in raw mode Write sends its bytes unchanged and Read
\* returns the bytes of the channel unchanged.
C16_PendingReadReplayed ==
    /\ [][(pc = "overflow" /\ pc' = "keys")
            => (owed.how = "capture" /\ rest' = owed.bytes)]_vars
    /\ [][(pc = "call" /\ pc' = "keys") => owed.how # "capture"]_vars
    /\ [](io.op = "RawWrite" => io.sent = io.arg)
    /\ [](rdret.err = "" => rdret.n = Len(rdret.data))

Min(a, b) == IF a < b THEN a ELSE b

\* C17: the ring is a bounded queue of capacity 100 that keeps repeated
\* strings: its size is min(number of Adds, 100); NthPreviousEntry(n)
\* succeeds exactly when 0 <= n < size, and then returns the string of the
\* (n+1)-th most recent Add, so that a full ring has lost exactly its
\* oldest strings.
C17_RingIsBoundedFifo ==
    /\ history.size = Min(adds, defaultNumEntries)
    /\ nth.called =>
          /\ (nth.ok /\ ~nth.panic) <=> (0 <= nth.n /\ nth.n < history.size)
          /\ ~nth.panic
          /\ nth.ok => nth.value = AddValue(adds - nth.n)

\* the same for the arguments n >= 0
RingIsBoundedFifoFromZero ==
    (nth.called /\ nth.n >= 0) =>
       /\ history.size = Min(adds, defaultNumEntries)
       /\ (nth.ok /\ ~nth.panic) <=> nth.n < history.size
       /\ ~nth.panic
       /\ nth.ok => nth.value = AddValue(adds - nth.n)

\* C18: in every reachable state of the editor the current line holds at
\* most maxLineLength (4096) code points.
C18_LineAtMostMax == Len(line) <= maxLineLength

\* C19: whenever the editor lock is free (between operations, during the
\* blocked read and during the autocomplete callback) the tracked cursor
\* lies on the screen's columns and not below the lowest row written:
\* 0 <= cursorX < termWidth and cursorY <= maxLine.
C19_CursorInBounds ==
    LockFree => (0 <= cursorX /\ cursorX < termWidth /\ cursorY <= maxLine)

\* SetSize with width 0 ran while ReadLine waited with a line that reached
\* past the first column
C19_Witness ==
    /\ io.op = "SetSize" /\ io.arg = <<0, 24>> /\ termWidth = 1
    /\ pc = "read" /\ LockFree /\ Len(line) = 3 /\ cursorY > 0

\* the step in which the handling of a key ends: a turn of readLine's key
\* loop that handled a key without calling the autocomplete callback, or
\* the return of the callback
KeyDone ==
    \/ /\ pc = "keys" /\ pc' \in {"keys", "ret"}
       /\ lastKey' \notin {RuneError, keyPanic}
    \/ pc = "complete" /\ pc' \in {"keys", "ret"}

\* the key whose handling ends was Enter and returned the line
EnterDone == KeyDone /\ pc' = "ret" /\ rl'.err \in {"", ErrPasteIndicator}

\* C20 (as stated): with echo on, after every key the editor handles the
\* tracked cursor is the cell of pos after the prompt, cursorX =
\* (visualLength(prompt) + pos) mod termWidth and cursorY =
\* (visualLength(prompt) + pos) div termWidth, with 0 <= pos <= Len(line).
C20_CursorAtPosAfterEveryKey ==
    [][(KeyDone /\ echo') =>
          (cursorAtPos' /\ 0 <= pos' /\ pos' <= Len(line'))]_vars

\* C20 (amended): the same after every key but an Enter that returns the
\* line; after that Enter the line is empty, pos = 0 and the tracked cursor
\* is (0, 0) with maxLine = 0, the prompt not being painted before the next
\* ReadLine.
C20_CursorAtPosAfterKeyButEnter ==
    /\ [][(KeyDone /\ echo' /\ ~EnterDone) =>
             (cursorAtPos' /\ 0 <= pos' /\ pos' <= Len(line'))]_vars
    /\ [][(EnterDone /\ echo') =>
             (/\ line' = <<>> /\ pos' = 0
              /\ cursorX' = 0 /\ cursorY' = 0 /\ maxLine' = 0)]_vars

\* a line recalled from the history by Up in a window two columns wide
C20_Witness ==
    /\ lastKey = keyUp /\ pc = "keys" /\ historyIndex = 0 /\ Len(line) > 0
    /\ termWidth = 2 /\ cursorY > 0 /\ echo

(***************************************************************************)
(* Claims about the history, autocomplete, keys and sizes.                 *)
(***************************************************************************)

\* ReadLine returns a committed line in this step
Commits == pc = "keys" /\ pc' = "ret" /\ rl'.err \in {"", ErrPasteIndicator}

\* C21: every string stored in the history is non-empty and has no white
\* space at either end; a committed line with a character that is not
\* white space is added without its surrounding white space, and a
\* committed line that is empty or all white space leaves the history as it
\* was.
C21_HistoryEntriesNotBlank ==
    /\ [](\A i \in DOMAIN history.entries :
             LET e == history.entries[i]
             IN  e # <<>> /\ ~isSpace(e[1]) /\ ~isSpace(e[Len(e)]))
    /\ [][Commits =>
            history' = IF \E i \in 1..Len(rl'.line) : ~isSpace(rl'.line[i])
                       THEN Add(history, TrimSpace(rl'.line))
                       ELSE history]_vars

\* the line " l" was committed and the history holds "l"
C21_Witness ==
    /\ pc = "ret" /\ rl.line = <<32, 108>>
    /\ history.size = 1 /\ entryAt(history, history.head) = <<108>>

\* C22: when the handling of a key other than Tab ends (named control
\* keys, Ctrl-C, printable keys, unknown keys, PasteStart and PasteEnd), the
\* autocomplete state is reset: not completing, index 0, no pending line.
C22_NonTabKeyResets ==
    [][(KeyDone /\ lastKey' # 9) => ac' = AcNone]_vars

\* the callback returns for a Tab
TabDone == pc = "complete" /\ lastKey = 9 /\ pc' = "keys"

\* the completion base a Tab works on: the running one, or the line and pos
TabBase ==
    IF ac.autoCompleting THEN ac
    ELSE [autoCompleting |-> TRUE, autoCompleteIndex |-> 0,
          autoCompletePendng |-> line, autoCompletePos |-> pos]

\* a Tab of the cycle started on "hel" with the cursor at its end
HelTab ==
    /\ TabDone
    /\ TabBase.autoCompletePendng = <<104, 101, 108>>
    /\ TabBase.autoCompletePos = 3
    /\ line \in {<<104, 101, 108>>, cmdHelp, cmdHello} /\ pos = Len(line)

\* C23 (as stated): with the commands help, hello and exit and the typed
\* line "hel", cursor at its end, the first Tab sets the line to "help",
\* the second to "hello", the third to "help" again.
C23_TabCyclesHelpFirst ==
    [][HelTab =>
         /\ line' = IF TabBase.autoCompleteIndex = 0 THEN cmdHelp ELSE cmdHello
         /\ pos' = Len(line')]_vars

\* C23 (amended): the candidates are taken in sorted order, "hello" before
\* "help": the first Tab sets the line to "hello", the second to "help",
\* the third to "hello" again; each Tab replaces the whole command token,
\* keeps "hel" as the base and advances the index modulo 2.
C23_TabCyclesSorted ==
    [][HelTab =>
         /\ line' = IF TabBase.autoCompleteIndex = 0 THEN cmdHello ELSE cmdHelp
         /\ pos' = Len(line')
         /\ ac' = [autoCompleting |-> TRUE,
                   autoCompleteIndex |-> 1 - TabBase.autoCompleteIndex,
                   autoCompletePendng |-> <<104, 101, 108>>,
                   autoCompletePos |-> 3]]_vars

\* the second Tab on "hel" has replaced "hello" by "help" and the index is
\* back at 0
C23_Witness ==
    /\ pc = "keys" /\ lastKey = 9 /\ line = cmdHelp /\ pos = 4
    /\ ac.autoCompleting /\ ac.autoCompleteIndex = 0
    /\ ac.autoCompletePendng = <<104, 101, 108>>

\* the first index from i on where the bytes hold no decimal digit
RECURSIVE digitsEnd(_, _)
digitsEnd(bytes, i) ==
    IF i <= Len(bytes) /\ bytes[i] \in 48..57 THEN digitsEnd(bytes, i + 1)
    ELSE i

\* the number written in decimal digits
RECURSIVE byteNum(_)
byteNum(ds) ==
    IF ds = <<>> THEN 0
    ELSE 10 * byteNum(SubSeq(ds, 1, Len(ds) - 1)) + (ds[Len(ds)] - 48)

\* how many rows down the bytes move the cursor of the screen: LF is one
\* row down, ESC [ n B is n rows down, ESC [ n A is n rows up (the
\* sequences of move, with n = 1 when no number stands)
RECURSIVE rowsMoved(_)
rowsMoved(bytes) ==
    IF bytes = <<>> THEN 0
    ELSE IF Len(bytes) >= 3 /\ bytes[1] = keyEscape /\ bytes[2] = 91
    THEN LET e == digitsEnd(bytes, 3)
             n == IF e = 3 THEN 1 ELSE byteNum(SubSeq(bytes, 3, e - 1))
             d == IF e > Len(bytes) THEN 0
                  ELSE IF bytes[e] = 65 THEN 0 - n
                  ELSE IF bytes[e] = 66 THEN n
                  ELSE 0
         IN  d + rowsMoved(From(bytes, e))
    ELSE (IF bytes[1] = 10 THEN 1 ELSE 0) + rowsMoved(Tail(bytes))

\* the handling of a Ctrl-C received outside paste mode ends
CtrlCDone == KeyDone /\ ~pasteActive /\ lastKey' = keyCtrlC

\* what the handling of the key queued
queuedByKey == From(outBuf', Len(outBuf))

\* "^C", CR, LF and the prompt
ctrlCEcho == <<94, 67, 13, 10>> \o prompt

\* C24: a Ctrl-C outside paste mode, for a line of any length (wrapped
\* lines included), empties the line, sets pos to 0, emits "^C" CR LF and
\* then the prompt, leaves the cursor right after the redrawn prompt on the
\* prompt's own row (the tracked cursor, and the cursor of the screen: no
\* row is left after the prompt was drawn), adds nothing to the history
\* and does not make ReadLine return.
C24_CtrlCRedrawsPrompt ==
    [][CtrlCDone =>
         /\ line' = <<>> /\ pos' = 0
         /\ history' = history
         /\ pc' = "keys" /\ rl' = rl
         /\ SubSeq(queuedByKey, 1, Len(ctrlCEcho)) = ctrlCEcho
         /\ cursorX' = visualLength(prompt) % termWidth
         /\ cursorY' = visualLength(prompt) \div termWidth
         /\ rowsMoved(From(queuedByKey, Len(ctrlCEcho))) = 0]_vars

\* C24 without the screen: the line, pos, the echo, the tracked cursor,
\* the history and the call are as stated
C24_CtrlCState ==
    [][CtrlCDone =>
         /\ line' = <<>> /\ pos' = 0
         /\ history' = history
         /\ pc' = "keys" /\ rl' = rl
         /\ SubSeq(queuedByKey, 1, Len(ctrlCEcho)) = ctrlCEcho
         /\ cursorX' = visualLength(prompt) % termWidth
         /\ cursorY' = visualLength(prompt) \div termWidth]_vars

\* a call of SetSize returns; its arguments
SetSizeDone == io'.op = "SetSize"
sizeWidth == io'.arg[1]
sizeHeight == io'.arg[2]

\* something is on the screen: SetSize does not take the line for blank
onScreen == ~(Len(line) = 0 /\ cursorX = 0 /\ cursorY = 0)

\* what SetSize sets whatever the screen shows, and where it leaves the
\* cursor when something is on the screen
SizeSet ==
    /\ termWidth' = (IF sizeWidth < 1 THEN 1 ELSE sizeWidth)
    /\ termHeight' = sizeHeight
    /\ line' = line /\ pos' = pos
    /\ onScreen =>
         /\ cursorX' = (visualLength(prompt) + pos) % termWidth'
         /\ cursorY' = (visualLength(prompt) + pos) \div termWidth'

\* scenario S5: 50 typed letters at the empty prompt, width 80 to 40
SizeS5 ==
    (/\ prompt = <<>> /\ Len(line) = 50 /\ pos = 50
     /\ termWidth = 80 /\ sizeWidth = 40)
      => (cursorX' = 10 /\ cursorY' = 1 /\ io'.sent # <<>>)

\* SetSize sends nothing and keeps the cursor
SizeQuiet ==
    io'.sent = <<>> /\ cursorX' = cursorX /\ cursorY' = cursorY

\* C25 (as stated): after SetSize(w, h), termWidth = max(w, 1), termHeight
\* = h, the line and pos are unchanged, with something on the screen the
\* tracked cursor is ((P + pos) mod termWidth, (P + pos) div termWidth), S5
\* gives (10, 1); when the width is unchanged, or the line is empty,
\* SetSize emits no bytes and changes no cursor state.
C25_SetSizeQuietOnEmptyLine ==
    [][SetSizeDone =>
         /\ SizeSet /\ SizeS5
         /\ (termWidth' = termWidth \/ line = <<>>) => SizeQuiet]_vars

\* C25 (amended): as stated, but SetSize is quiet when the width is
\* unchanged or nothing is on the screen (the line is empty and the
\* tracked cursor is at (0, 0)); with the prompt drawn and an empty line a
\* changed width repaints the prompt.
C25_SetSizeQuietOnBlankScreen ==
    [][SetSizeDone =>
         /\ SizeSet /\ SizeS5
         /\ (termWidth' = termWidth \/ ~onScreen) => SizeQuiet /\ maxLine' = maxLine
         /\ (termWidth' # termWidth /\ onScreen) => io'.sent # <<>>]_vars

\* S5 has happened: 50 letters at the empty prompt, the width set from 80
\* to 40, the cursor at (10, 1)
C25_Witness ==
    /\ io.op = "SetSize" /\ io.arg[1] = 40 /\ io.sent # <<>>
    /\ prompt = <<>> /\ Len(line) = 50 /\ pos = 50
    /\ termWidth = 40 /\ cursorX = 10 /\ cursorY = 1

\* the index of the first byte that ends an escape sequence: a letter or ~
RECURSIVE finalByteAt(_, _)
finalByteAt(b, i) ==
    IF i > Len(b) \/ isAlpha(b[i]) \/ b[i] = 126 THEN i
    ELSE finalByteAt(b, i + 1)

\* the code points of the keys: the surrogate range
isKeyCode(r) == r >= 55296 /\ r <= 57343

\* C26: an escape sequence the decoder does not know is consumed up to and
\* including its final byte (a letter or ~) and changes neither the line
\* nor pos, outside and inside a bracketed paste; no code point of the
\* range of the keys is ever inserted into the line.
C26_UnknownKeyIgnored ==
    /\ [][(pc \in {"keys", "complete"} /\ lastKey' = keyUnknown) =>
            /\ line' = line /\ pos' = pos
            /\ pc = "keys" => rest' = From(rest, finalByteAt(rest, 1))]_vars
    /\ [](\A i \in 1..Len(line) : ~isKeyCode(line[i]))

\* C26 outside a paste: the sequence is consumed and the line and pos stay
C26_UnknownKeyIgnoredTyped ==
    [][(pc \in {"keys", "complete"} /\ lastKey' = keyUnknown /\ ~pasteActive) =>
         /\ line' = line /\ pos' = pos
         /\ pc = "keys" => rest' = From(rest, finalByteAt(rest, 1))]_vars

\* the key of an encoding that arrives whole: outside a paste the named
\* key, in a paste keyPasteEnd; the rune of a UTF-8 encoding in both
encodedKey(e, paste) ==
    IF e = <<195, 169>> THEN 233
    ELSE IF paste THEN (IF e = pasteEnd THEN keyPasteEnd ELSE keyUnknown)
    ELSE IF e = <<keyEscape, 91, 65>> THEN keyUp
    ELSE IF e = <<keyEscape, 91, 51, 126>> THEN keyDel
    ELSE IF e = <<keyEscape, 91, 49, 59, 51, 67>> THEN keyAltRight
    ELSE IF e = pasteStart THEN keyPasteStart
    ELSE keyUnknown

\* the encodings the decoder recognises in the mode
recognised(paste) ==
    { e \in KeyEncodings : encodedKey(e, paste) # keyUnknown }

\* the buffer is a proper prefix of an encoding recognised in the mode
isProperPrefix(b, paste) ==
    \E e \in recognised(paste) : isPrefixOf(b, e) /\ Len(b) < Len(e)

\* the decoder is given a proper prefix: the sentinel, the buffer kept for
\* the next read, no failure
PrefixWaits ==
    (pc = "keys" /\ isProperPrefix(rest, pasteActive)) =>
        /\ lastKey' = RuneError
        /\ pc' = "read"
        /\ remainder' = rest

\* the decoder is given a whole encoding, in one read or in pieces: the
\* key of the encoding, nothing left
WholeDecodes ==
    (pc = "keys" /\ rest \in recognised(pasteActive)) =>
        /\ lastKey' = encodedKey(rest, pasteActive)
        /\ lastKey' \in {keyPasteStart, keyPasteEnd} => rest' = <<>>

\* C27: for every buffer that is a proper prefix of a recognised key
\* encoding (an incomplete UTF-8 rune, ESC, ESC [, ESC [ 3, ESC [ 1 ; 3,
\* ESC [ 2 0 0) the decoder returns the sentinel with the buffer intact and
\* does not fail, and once the remaining bytes arrive in a later read the
\* decoded key is the key of the whole encoding.
C27_PrefixWaitsForRest ==
    [][PrefixWaits /\ WholeDecodes]_vars

\* C27 for every prefix but ESC [ 3 outside a paste
C27_PrefixWaitsButEscBracket3 ==
    [][/\ (rest # <<keyEscape, 91, 51>> \/ pasteActive) => PrefixWaits
       /\ WholeDecodes]_vars

\* a lookup returns
LookupDone == ret'.op \in {"GetClient", "SearchClients"}

\* C28: the lookups, which hold the lock of the registry in shared mode,
\* modify no map of the registry (users, controllees, aliases, sessions):
\* the registry is the same before and after each of them, so what
\* GetClient answers one user for an alias does not depend on the lookups
\* other users made before.
C28_LookupsKeepRegistry ==
    [][LookupDone =>
         UNCHANGED <<users, activeConnections, allClients, aliases,
                     uniqueIdToAllAliases>>]_vars

\* C28 for SearchClients, and for GetClient called by an admin or with an
\* identifier that is no alias
C28_LookupsKeepRegistryButPrune ==
    [][(/\ LookupDone
        /\ \/ ret'.op = "SearchClients"
           \/ ret'.arg \notin DOMAIN aliases
           \/ ret'.arg \in DOMAIN allClients
           \/ Privilege(users[ret'.username]) = AdminPermissions) =>
         UNCHANGED <<users, activeConnections, allClients, aliases,
                     uniqueIdToAllAliases>>]_vars

\* C29: every call of EnableRaw returns and releases the lock of the
\* editor, whatever the goroutine of handleWindowSize is doing: a call that
\* has taken the lock and stands in its send on t.cancel gets out of it.
C29_EnableRawReturns ==
    (lock = Lock("EnableRaw")) ~> (lock # Lock("EnableRaw"))

\* C29 while a goroutine of handleWindowSize is in its select, or in raw
\* mode already: the call does not keep the lock
C29_EnableRawReturnsWhenSelecting ==
    [][(io'.op = "EnableRaw" /\ lock = "" /\ (raw \/ Selecting(workers) # {}))
         => (lock' = "" /\ raw')]_vars

\* C30: after DisableRaw(true) the next ReadLine reaches its read of the
\* channel, with the lock released, whether or not a Read was waiting when
\* raw mode was left: a ReadLine that waits, under the lock, for the bytes
\* of the overflow channel gets out of the wait.
C30_ReadLineReachesRead ==
    (pc = "overflow") ~> (pc = "read" /\ lock = "")

\* C30 once the overflow channel holds bytes: ReadLine takes them as its
\* remainder, closes the channel and goes on to its key loop
C30_ReadLineTakesOverflow ==
    [][(pc = "overflow" /\ pc' # "overflow") =>
         /\ rawOverflow.buf # <<>>
         /\ remainder' = Head(rawOverflow.buf)
         /\ rawOverflow' = NoOverflow
         /\ pc' = "keys"]_vars


(***************************************************************************)
(* Claims about the registry's errors, the liveness set, ReadPassword and  *)
(* the order of the input.                                                 *)
(***************************************************************************)
\* CreateOrGetUser returns the error of the duplicate session
DuplicateRejected == ret'.op = "CreateOrGetUser" /\ ret'.err # ""

\* C31: a CreateOrGetUser that returns the duplicate-session error leaves
\* the registry unchanged: the username map, every user's session map, the
\* liveness set and the user's privilege are as before the call.
C31_DuplicateLeavesRegistry ==
    [][DuplicateRejected => UNCHANGED <<users, activeConnections>>]_vars

\* C31 but for the privilege: the set of users, every user's sessions and
\* controllees and the liveness set are as before the call
C31_DuplicateLeavesSessions ==
    [][DuplicateRejected =>
         /\ DOMAIN users' = DOMAIN users
         /\ \A n \in DOMAIN users :
               /\ users'[n].userConnections = users[n].userConnections
               /\ users'[n].clients = users[n].clients
         /\ activeConnections' = activeConnections]_vars

\* the labels of the sessions of the users of the username map
sessionLabels ==
    UNION { DOMAIN users[n].userConnections : n \in DOMAIN users }

\* C32: every label of the liveness set is the key of a session of some
\* user of the username map; so once every session of a user has been
\* disconnected, each by one DisconnectUser and in any order, no label of
\* that user is left in the liveness set.
C32_LiveLabelsAreSessions ==
    activeConnections \subseteq sessionLabels

\* C32 step by step: the inclusion is kept by every call but a
\* DisconnectUser that drops the record of a user who has other sessions
C32_LiveLabelsKeptButRecordDrop ==
    [][(/\ activeConnections \subseteq sessionLabels
        /\ ~(/\ ret'.op = "DisconnectUser"
             /\ \E n \in DOMAIN users \ DOMAIN users' :
                   DOMAIN users[n].userConnections
                       \ {makeConnectionDetailsString(ret'.conn)} # {})) =>
         activeConnections' \subseteq sessionLabels']_vars

\* the bytes hold a code point of the line l
showsLine(bytes, l) ==
    \E i \in 1..Len(bytes), j \in 1..Len(l) : bytes[i] = l[j]

\* a step made while a ReadPassword is under way
InPassword == ~echo \/ ~echo'

\* C33: while a ReadPassword is under way no code point of the line being
\* entered is written to the channel, whatever Write, Clear and SetSize
\* other tasks call, and the line is not added to the history; when
\* ReadPassword returns, with a line or with an error, echo is on again
\* and the prompt is the one of before the call.
C33_PasswordNotShown ==
    /\ [][InPassword =>
            /\ ~showsLine(io'.sent, line) /\ ~showsLine(io'.sent, line')
            /\ history' = history]_vars
    /\ [][(pc = "ret" /\ ~echo) => (echo' /\ prompt' = oldPrompt)]_vars

\* C33 but for SetSize: the keys, Write and Clear show nothing of the
\* line, the history is kept, echo and the prompt are put back
C33_PasswordNotShownButSetSize ==
    /\ [][(InPassword /\ io'.op # "SetSize") =>
            /\ ~showsLine(io'.sent, line) /\ ~showsLine(io'.sent, line')
            /\ history' = history]_vars
    /\ [][InPassword => history' = history]_vars
    /\ [][(pc = "ret" /\ ~echo) => (echo' /\ prompt' = oldPrompt)]_vars

\* the bytes that follow the key the loop is about to take
afterKey == bytesToKey(rest, pasteActive).rest

\* a turn of the key loop takes the first key of the bytes at hand and
\* leaves the bytes that follow it; a read appends to the bytes kept; a
\* call of ReadLine starts with the bytes kept
InOrderWithinCall ==
    /\ (pc = "keys" /\ pc' \in {"keys", "complete"}) => rest' = afterKey
    /\ (pc = "read" /\ pc' = "read") => remainder' = remainder
    /\ (pc = "call" /\ pc' = "keys") => rest' = remainder

\* ReadLine returns from its key loop
ReturnsFromKeys == pc = "keys" /\ pc' = "ret"

\* C34: every byte read is processed once and in the order of arrival
\* across the calls of ReadLine: the bytes that follow the Enter in the
\* same read are kept and the next ReadLine starts with them, and after a
\* ReadLine that returned ErrCtrlD the next ReadLine starts with the bytes
\* that follow the Ctrl-D, none of the bytes before it a second time.
C34_BytesOnceInOrder ==
    [][/\ InOrderWithinCall
       /\ ReturnsFromKeys => remainder' = afterKey]_vars

\* C34 for the calls that return a line
C34_BytesOnceInOrderOnEnter ==
    [][/\ InOrderWithinCall
       /\ (ReturnsFromKeys /\ rl'.err # ErrCtrlD) => remainder' = afterKey]_vars

\* DisconnectUser is called for the connection whose attach has just been
\* rejected as a duplicate
DisconnectsRejected ==
    /\ ret'.op = "DisconnectUser"
    /\ Rejected(ret'.conn)

\* C35: DisconnectUser(c) removes a session, and maybe the record of the
\* user, only when c was attached by CreateOrGetUser: called for a
\* connection whose attach was rejected as a duplicate it leaves the
\* session of that label in the user's session map and in the liveness
\* set, and the user in the username map.
C35_RejectedDisconnectKeepsSession ==
    [][DisconnectsRejected =>
         LET details == makeConnectionDetailsString(ret'.conn)
             n == ret'.conn.user
         IN  /\ n \in DOMAIN users'
             /\ details \in DOMAIN users'[n].userConnections
             /\ details \in activeConnections']_vars

\* C35 for the controllees: DisconnectUser of a rejected connection leaves
\* the controllees, the aliases and the sessions of the other labels
C35_RejectedDisconnectKeepsOthers ==
    [][DisconnectsRejected =>
         LET details == makeConnectionDetailsString(ret'.conn)
         IN  /\ UNCHANGED <<allClients, aliases, uniqueIdToAllAliases>>
             /\ activeConnections \ {details} \subseteq activeConnections'
             /\ ret'.closed]_vars

====
